---- MODULE Spec2Model ----
(***************************************************************************)
(* arduino-logger: the fixed-capacity CircularBuffer, LoggerBase and the    *)
(* loggers built on them.                                                   *)
(*                                                                          *)
(* The specifications share the variables:                                  *)
(*   SpecCB       drives CircularBuffer<T, TCount> directly (put, get,      *)
(*                reset); SpecZero does so for TCount = 0,                  *)
(*   Spec         drives a CircularLogBufferLogger<TBufferSize> through its *)
(*                public interface (log, log_interrupt, print, flush,       *)
(*                clear and the setters) on buffers of 1..MaxCapacity,      *)
(*   SpecRecords  drives log, flush, clear and auto_flush(bool) on buffers  *)
(*                that hold a whole record with a "<D> " style prefix,      *)
(*   SpecNotice   does so on buffers that hold a whole overrun notice,      *)
(*   SpecModule   drives the level setters of the module loggers,           *)
(*   SpecSD, SpecSDModule, SpecEEPROM                                       *)
(*                drive the protected overrides of the loggers that flush   *)
(*                to an SD file or to the EEPROM window,                    *)
(*   SpecRobust   drives a TeensyRobustModuleLogger in EEPROM mode through  *)
(*                print, log, flush, clear and auto_flush(bool),            *)
(*   SpecModuleLog drives a TeensyRobustModuleLogger through the logging    *)
(*                overloads that take a module id, and the level setters,   *)
(*   SpecISR      follows put() and flush() statement by statement, with    *)
(*                interrupt handlers that call log_interrupt in between.    *)
(***************************************************************************)
EXTENDS Integers, Sequences, FiniteSets, TLC

VARIABLES
    log_buffer_,        \* CircularBuffer: [buf_, head_, tail_, full_, max_size_]
    enabled_,           \* LoggerBase::enabled_
    auto_flush_,        \* LoggerBase::auto_flush_
    overrun_occurred_,  \* LoggerBase::overrun_occurred_
    level_,             \* LoggerBase::level_
    echo_,              \* LoggerBase::echo_
    halted,             \* the call in progress never returned (unbounded re-entry of flush())
    events,             \* what the last call did, in order: flush / flush_ / put / putchar / printf
    call,               \* the last call: its name, its arguments and the state it started from
    pushed,             \* SpecCB: items put since the buffer was last empty
    got,                \* SpecCB: values returned by get() since the buffer was last empty
    live,               \* SpecCB: number of items put and not yet taken or evicted
    fifo_run,           \* SpecCB: the calls since the buffer was last empty are puts, then gets
    vptr,               \* dynamic type of the logger object (which overrides the virtual calls reach)
    fs_,                \* TeensyRobustModuleLogger::fs_ != nullptr
    fallback_to_eeprom_,\* TeensyRobustModuleLogger::fallback_to_eeprom_
    eeprom_log_size_,   \* TeensyRobustModuleLogger::eeprom_log_size_
    eeprom_write_pos_,  \* TeensyRobustModuleLogger::eeprom_write_pos_
    eeprom_full_,       \* TeensyRobustModuleLogger::eeprom_full_
    EEPROM,             \* the cells eeprom_log_address_ + 0 .. eeprom_log_size_ - 1
    module_levels_,     \* module_levels_[TModuleCount]
    card,               \* the SD card: "ok", "short" (a write stores one byte less), "dead"
    persisted,          \* the log bytes handed to EEPROM.write, while the window has not wrapped
    console,            \* whether what printf writes arrives anywhere
    fg                  \* the foreground call in progress, when it is followed statement
                        \* by statement: its position and its local variables

device == <<vptr, fs_, fallback_to_eeprom_, eeprom_log_size_, eeprom_write_pos_,
            eeprom_full_, EEPROM, module_levels_, card, persisted, console, fg>>

vars == <<log_buffer_, enabled_, auto_flush_, overrun_occurred_, level_, echo_,
          halted, events, call, pushed, got, live, fifo_run, device>>

----------------------------------------------------------------------------
(* Bounds *)

\* Largest TCount / TBufferSize instantiated
MaxCapacity == 3
\* SpecCB: how many puts beyond the capacity are followed before a get or reset
MaxOverwrite == 2
\* Largest item value put by SpecCB (T() == 0 is the default-constructed item)
MaxItem == 2
\* Longest rendered message body handed to log / print
MaxBodyLen == 1
\* Nesting depth of flush() followed before the call is given up as never returning
MaxFlushDepth == 2
\* TCount == 0: largest value a build is followed to produce for the undefined x % 0
MaxRemainder == 2
\* Bytes the buffer holds beyond one whole overrun notice record
MaxSlack == 0
\* Largest module table (TModuleCount)
MaxModuleCount == 2
\* Largest EEPROM window (the size passed to begin(address, size))
MaxEepromSize == 5

Capacities == 1..MaxCapacity
Items == 0..MaxItem

\* Content of a slot of buf_ that was never written (T buf_[TCount] is not initialised)
Indeterminate == -1

----------------------------------------------------------------------------
(* CircularBuffer<T, TCount>  (src/src/internal/circular_buffer.hpp) *)

\* a buffer whose full_ member starts as true
CircularBuffer_full(TCount) ==
    [buf_ |-> [i \in 0..(TCount - 1) |-> Indeterminate],
     head_ |-> 0, tail_ |-> 0, max_size_ |-> TCount, full_ |-> TRUE]

CircularBuffer(TCount) ==
    [buf_ |-> [i \in 0..(TCount - 1) |-> Indeterminate],
     head_ |-> 0, tail_ |-> 0, max_size_ |-> TCount, full_ |-> FALSE]

\* put() that never sets full_
put_never_full(cb, item) ==
    LET b1 == [cb.buf_ EXCEPT ![cb.head_] = item]
        h1 == (cb.head_ + 1) % cb.max_size_
    IN  [cb EXCEPT !.buf_ = b1, !.head_ = h1, !.full_ = FALSE]

\* put() that does not advance tail_ when the buffer is full
put_keeps_tail(cb, item) ==
    LET b1 == [cb.buf_ EXCEPT ![cb.head_] = item]
        h1 == (cb.head_ + 1) % cb.max_size_
    IN  [cb EXCEPT !.buf_ = b1, !.head_ = h1, !.full_ = (h1 = cb.tail_)]

put(cb, item) ==
    LET b1 == [cb.buf_ EXCEPT ![cb.head_] = item]
        t1 == IF cb.full_ THEN (cb.tail_ + 1) % cb.max_size_ ELSE cb.tail_
        h1 == (cb.head_ + 1) % cb.max_size_
    IN  [cb EXCEPT !.buf_ = b1, !.tail_ = t1, !.head_ = h1, !.full_ = (h1 = t1)]

empty(cb) == (~cb.full_) /\ (cb.head_ = cb.tail_)

full(cb) == cb.full_

capacity(cb) == cb.max_size_

size(cb) ==
    IF ~cb.full_
    THEN IF cb.head_ >= cb.tail_
         THEN cb.head_ - cb.tail_
         ELSE cb.max_size_ + cb.head_ - cb.tail_
    ELSE cb.max_size_

\* get() without the test for an empty buffer
get_unchecked(cb) ==
    [val |-> cb.buf_[cb.tail_],
     cb  |-> [cb EXCEPT !.full_ = FALSE, !.tail_ = (cb.tail_ + 1) % cb.max_size_]]

\* get() returns a value and changes the buffer: [val, cb]
get(cb) ==
    IF empty(cb)
    THEN [val |-> 0, cb |-> cb]
    ELSE [val |-> cb.buf_[cb.tail_],
          cb  |-> [cb EXCEPT !.full_ = FALSE, !.tail_ = (cb.tail_ + 1) % cb.max_size_]]

\* reset() that rewinds head_ to slot 0 and leaves tail_ where it is
reset_head_zero(cb) == [cb EXCEPT !.head_ = 0, !.full_ = FALSE]

\* reset() that does not clear full_
reset_keeps_full(cb) == [cb EXCEPT !.head_ = cb.tail_]

\* reset() that moves tail_ up to head_ instead of head_ back to tail_
reset_tail_to_head(cb) == [cb EXCEPT !.tail_ = cb.head_, !.full_ = FALSE]

reset(cb) == [cb EXCEPT !.head_ = cb.tail_, !.full_ = FALSE]

head(cb) == cb.head_

tail(cb) == cb.tail_

storage(cb) == cb.buf_

----------------------------------------------------------------------------
(* Strings are sequences of character codes *)

LOG_LEVEL_OFF == 0
LOG_LEVEL_CRITICAL == 1
LOG_LEVEL_ERROR == 2
LOG_LEVEL_WARNING == 3
LOG_LEVEL_INFO == 4
LOG_LEVEL_DEBUG == 5
LOG_LEVEL_MAX == LOG_LEVEL_DEBUG
LOG_LEVEL == LOG_LEVEL_DEBUG

\* "<!> ", "<E> ", "<W> ", "<I> ", "<D> "
LOG_LEVEL_CRITICAL_PREFIX == <<60, 33, 62, 32>>
LOG_LEVEL_ERROR_PREFIX == <<60, 69, 62, 32>>
LOG_LEVEL_WARNING_PREFIX == <<60, 87, 62, 32>>
LOG_LEVEL_INFO_PREFIX == <<60, 73, 62, 32>>
LOG_LEVEL_DEBUG_PREFIX == <<60, 68, 62, 32>>

\* indexed by level + 1; level off has the short name "O"
LOG_LEVEL_SHORT_NAMES ==
    << <<79>>, LOG_LEVEL_CRITICAL_PREFIX, LOG_LEVEL_ERROR_PREFIX,
       LOG_LEVEL_WARNING_PREFIX, LOG_LEVEL_INFO_PREFIX, LOG_LEVEL_DEBUG_PREFIX >>

LOG_LEVEL_LIMIT == LOG_LEVEL

LOG_LEVEL_TO_SHORT_C_STRING(l) == LOG_LEVEL_SHORT_NAMES[l + 1]

\* "---Log buffer overrun detected---\n"
OverrunNotice ==
    <<45, 45, 45, 76, 111, 103, 32, 98, 117, 102, 102, 101, 114, 32,
      111, 118, 101, 114, 114, 117, 110, 32, 100, 101, 116, 101, 99, 116, 101, 100,
      45, 45, 45, 10>>

\* Levels a caller can pass to log(); level values a caller can pass to level(l):
\* one past the ceiling is what the "Create a logger" test passes
Levels == {LOG_LEVEL_OFF, LOG_LEVEL_CRITICAL, LOG_LEVEL_DEBUG}
LevelArgs == {LOG_LEVEL_OFF, LOG_LEVEL_WARNING, LOG_LEVEL_DEBUG, LOG_LEVEL_MAX + 1}

\* Rendered message bodies: "a", "ab", ...
Body(n) == [i \in 1..n |-> 96 + i]
Bodies == {Body(n) : n \in 1..MaxBodyLen}

\* The one-character message "a" the small-capacity logger is driven with
Messages == {Body(1)}

----------------------------------------------------------------------------
(* LoggerBase (src/src/ArduinoLogger.h) and CircularLogBufferLogger           *)
(* (src/src/CircularBufferLogger.h), as functions of the logger object s:     *)
(* [cb, enabled_, auto_flush_, overrun_occurred_, level_, echo_, halted, ev]  *)

Event(k, c) == [k |-> k, c |-> c]

Emit(s, k, c) == [s EXCEPT !.ev = Append(@, Event(k, c))]

\* CircularLogBufferLogger::size / capacity
logger_size(s) == size(s.cb)

logger_capacity(s) == capacity(s.cb)

internal_size(s) == logger_size(s)

internal_capacity(s) == logger_capacity(s)

enabled(s) == s.enabled_

echo(s) == s.echo_

\* echo(bool) that returns the new value instead of the prior one
echo_set_returns_new(s, en) == [ret |-> en, s |-> [s EXCEPT !.echo_ = en]]

\* bool echo(bool en): [ret, s]
echo_set(s, en) == [ret |-> s.echo_, s |-> [s EXCEPT !.echo_ = en]]

level(s) == s.level_

\* log_level_e level(unsigned module_id) const
level_module(s, module_id) == s.module_levels_[module_id]

\* level(module_id, l) that sets the level of all modules
level_module_set_all(s, module_id, l) ==
    LET s1 == IF l <= LOG_LEVEL_LIMIT
              THEN [s EXCEPT !.module_levels_ = [m \in DOMAIN @ |-> l]]
              ELSE s
    IN  [ret |-> s1.module_levels_[module_id], s |-> s1]

\* log_level_e level(unsigned module_id, log_level_e l): [ret, s]
level_module_set(s, module_id, l) ==
    LET s1 == IF l <= LOG_LEVEL_LIMIT THEN [s EXCEPT !.module_levels_[module_id] = l] ELSE s
    IN  [ret |-> s1.module_levels_[module_id], s |-> s1]

\* log_level_e level(log_level_e l): [ret, s]
level_set(s, l) ==
    LET s1 == IF l <= LOG_LEVEL_LIMIT THEN [s EXCEPT !.level_ = l] ELSE s
    IN  [ret |-> s1.level_, s |-> s1]

auto_flush(s) == s.auto_flush_

\* logger.level(l), l a log_level_e, on a TeensyRobustModuleLogger: the class
\* declares level(log_level_e), which forwards to LoggerBase::level(l)
TeensyRobustModuleLogger_level(s, l) == level_set(s, l)

\* logger.level(l), l a log_level_e, on a TeensySDRotationalModuleLogger: the
\* class declares level(unsigned) and level(unsigned, log_level_e), which hide
\* LoggerBase::level(log_level_e); the unscoped enum converts to unsigned and the
\* call is level(unsigned module_id) const: return module_levels_[module_id].
\* beyond is what the read gives when l is past the end of the table.
TeensySDRotationalModuleLogger_level(s, l, beyond) ==
    [ret |-> IF l \in DOMAIN s.module_levels_ THEN level_module(s, l) ELSE beyond,
     s |-> s]

\* bool auto_flush(bool enabled): [ret, s]
auto_flush_set(s, en) == [ret |-> s.auto_flush_, s |-> [s EXCEPT !.auto_flush_ = en]]

has_overrun(s) == s.overrun_occurred_

\* CircularLogBufferLogger::log_putc
log_putc(s, c) == Emit([s EXCEPT !.cb = put(s.cb, c)], "put", c)

\* CircularLogBufferLogger::flush_ : while(!empty()) _putchar(get())
RECURSIVE drain(_)
drain(s) ==
    IF empty(s.cb)
    THEN s
    ELSE LET g == get(s.cb)
         IN  drain(Emit([s EXCEPT !.cb = g.cb], "putchar", g.val))

\* flush_ that writes buf_[0 .. size) in index order and resets the buffer
RECURSIVE putchars(_, _, _)
putchars(s, i, n) ==
    IF i >= n THEN s ELSE putchars(Emit(s, "putchar", s.cb.buf_[i]), i + 1, n)

flush__index_order(s) ==
    LET s1 == putchars(Emit(s, "flush_", 0), 0, size(s.cb))
    IN  [s1 EXCEPT !.cb = reset(s1.cb)]

\* errorHalt(msg): reports on the console and spins in while(true): the call never returns
errorHalt(s) == [Emit(s, "errorHalt", 0) EXCEPT !.halted = TRUE]

\* file_.write(&buffer[from], n) as the card answers it: [ret, s]. The events are
\* the request (write: from, count: n), the bytes the file took, and the count returned
RECURSIVE file_bytes(_, _, _)
file_bytes(s, from, n) ==
    IF n <= 0 THEN s ELSE file_bytes(Emit(s, "byte", s.cb.buf_[from]), from + 1, n - 1)

file_write(s, from, n) ==
    LET ret == CASE s.card = "ok" -> n
                 [] s.card = "short" -> IF n > 0 THEN n - 1 ELSE 0
                 [] OTHER -> 0
        s1 == file_bytes(Emit(Emit(s, "write", from), "count", n), from, ret)
    IN  [ret |-> ret, s |-> Emit(s1, "ret", ret)]

\* writeBufferToSDFile that always writes the single segment buf_[tail .. tail + size)
writeBufferToSDFile_one_segment(s) ==
    IF s.halted THEN s
    ELSE LET s0 == Emit(s, "open", 0)
         IN  IF s.card = "dead" THEN errorHalt(s0)
             ELSE LET n == IF tail(s.cb) + size(s.cb) <= capacity(s.cb)
                           THEN size(s.cb) ELSE capacity(s.cb) - tail(s.cb)
                      w1 == file_write(s0, tail(s.cb), n)
                  IN  Emit([w1.s EXCEPT !.cb = reset(w1.s.cb)], "close", 0)

\* writeBufferToSDFile that resets the buffer and returns whatever the card reported
writeBufferToSDFile_unchecked(s) ==
    IF s.halted THEN s
    ELSE LET s0 == Emit(s, "open", 0)
             hd == head(s.cb)
             tl == tail(s.cb)
             w1 == IF (hd < tl) \/ ((tl > 0) /\ (size(s.cb) = capacity(s.cb)))
                   THEN file_write(file_write(s0, tl, capacity(s.cb) - tl).s, 0, hd)
                   ELSE file_write(s0, tl, size(s.cb))
         IN  Emit([w1.s EXCEPT !.cb = reset(w1.s.cb)], "close", 0)

\* SDFileLogger / TeensySDRotationalLogger / AVRSDRotationalLogger /
\* TeensyRobustModuleLogger::writeBufferToSDFile (the four bodies are the same)
writeBufferToSDFile(s) ==
    IF s.halted THEN s
    ELSE LET s0 == Emit(s, "open", 0)
         IN  IF s.card = "dead" THEN errorHalt(s0)
             ELSE LET hd == head(s.cb)
                      tl == tail(s.cb)
                      wrap == (hd < tl) \/ ((tl > 0) /\ (size(s.cb) = capacity(s.cb)))
                      w1 == IF wrap
                            THEN file_write(s0, tl, capacity(s.cb) - tl)
                            ELSE file_write(s0, tl, size(s.cb))
                      w2 == IF wrap THEN file_write(w1.s, 0, hd) ELSE [ret |-> 0, s |-> w1.s]
                      bytes_written == w1.ret + w2.ret
                  IN  IF bytes_written # size(s.cb)
                      THEN errorHalt(w2.s)
                      ELSE Emit([w2.s EXCEPT !.cb = reset(w2.s.cb)], "close", 0)

\* file_.write(&buffer[from], n) where buffer[from .. from + n) may end behind
\* the storage array: an element behind the array reads as whatever lies there
RECURSIVE file_bytes_past(_, _, _, _)
file_bytes_past(s, from, n, beyond) ==
    IF n <= 0 THEN s
    ELSE file_bytes_past(
             Emit(s, "byte", IF from \in DOMAIN s.cb.buf_ THEN s.cb.buf_[from] ELSE beyond),
             from + 1, n - 1, beyond)

file_write_past(s, from, n, beyond) ==
    LET ret == CASE s.card = "ok" -> n
                 [] s.card = "short" -> IF n > 0 THEN n - 1 ELSE 0
                 [] OTHER -> 0
        s1 == file_bytes_past(Emit(Emit(s, "write", from), "count", n), from, ret, beyond)
    IN  [ret |-> ret, s |-> Emit(s1, "ret", ret)]

\* TeensySDRotationalModuleLogger::writeBufferToSDFile
TeensySDRotationalModuleLogger_writeBufferToSDFile(s, beyond) ==
    IF s.halted THEN s
    ELSE LET s0 == Emit(s, "open", 0)
         IN  IF s.card = "dead" THEN errorHalt(s0)
             ELSE LET hd == head(s.cb)
                      tl == tail(s.cb)
                      w1 == IF hd > tl
                            THEN file_write_past(s0, hd, capacity(s.cb), beyond)
                            ELSE [ret |-> 0, s |-> s0]
                      w2 == file_write_past(w1.s, 0, tl, beyond)
                      bytes_written == w1.ret + w2.ret
                  IN  IF bytes_written # size(s.cb)
                      THEN errorHalt(w2.s)
                      ELSE Emit([w2.s EXCEPT !.cb = reset(w2.s.cb)], "close", 0)

\* EEPROMWriteAndIncrement that wraps the cursor one write late
EEPROMWriteAndIncrement_late(s, c) ==
    LET s1 == Emit([s EXCEPT !.EEPROM[s.eeprom_write_pos_] = c,
                             !.eeprom_write_pos_ = @ + 1], "EEPROM.write", c)
    IN  IF s1.eeprom_write_pos_ > s1.eeprom_log_size_
        THEN [s1 EXCEPT !.eeprom_full_ = TRUE, !.eeprom_write_pos_ = 0]
        ELSE s1

\* TeensyRobustModuleLogger::EEPROMWriteAndIncrement
EEPROMWriteAndIncrement(s, c) ==
    LET s1 == Emit([s EXCEPT !.EEPROM[s.eeprom_write_pos_] = c,
                             !.eeprom_write_pos_ = @ + 1], "EEPROM.write", c)
    IN  IF s1.eeprom_write_pos_ = s1.eeprom_log_size_
        THEN [s1 EXCEPT !.eeprom_full_ = TRUE, !.eeprom_write_pos_ = 0]
        ELSE s1

\* while(!log_buffer_.empty()) EEPROMWriteAndIncrement(log_buffer_.get());
\* persisted collects the bytes so written until the window wraps
RECURSIVE eeprom_drain(_)
eeprom_drain(s) ==
    IF empty(s.cb)
    THEN s
    ELSE LET g == get(s.cb)
             s1 == EEPROMWriteAndIncrement([s EXCEPT !.cb = g.cb], g.val)
         IN  eeprom_drain([s1 EXCEPT !.persisted =
                               IF s1.eeprom_full_ THEN <<>> ELSE Append(@, g.val)])

\* TeensyRobustModuleLogger::size; file_size is what file_.size() returns
TeensyRobustModuleLogger_size(s, file_size) ==
    IF s.fs_
    THEN file_size
    ELSE IF s.fallback_to_eeprom_
         THEN IF s.eeprom_full_ THEN s.eeprom_log_size_ ELSE s.eeprom_write_pos_
         ELSE size(s.cb)

\* TeensyRobustModuleLogger::flush_
TeensyRobustModuleLogger_flush_(s) ==
    IF s.fs_
    THEN writeBufferToSDFile(Emit(s, "flush_", 0))
    ELSE IF s.fallback_to_eeprom_
         THEN LET s1 == EEPROMWriteAndIncrement(eeprom_drain(Emit(s, "flush_", 0)), 0)
              IN  [s1 EXCEPT !.cb = reset(s1.cb),
                             !.persisted = IF s1.eeprom_full_ THEN <<>> ELSE @]
         ELSE drain(Emit(s, "flush_", 0))

flush_(s) == drain(Emit(s, "flush_", 0))

\* CircularLogBufferLogger::clear_
clear_(s) == [s EXCEPT !.cb = reset(s.cb)]

RECURSIVE flush(_, _)
RECURSIVE log_add_char_to_buffer(_, _, _)
RECURSIVE fctprintf(_, _, _)
RECURSIVE print(_, _, _)
RECURSIVE log(_, _, _, _)
RECURSIVE critical(_, _, _)

\* LoggerBase::log_customprefix : empty in LoggerBase and CircularLogBufferLogger
log_customprefix(s, d) == s

\* log_add_char_to_buffer that tests size > capacity: never flushes, never flags
log_add_char_to_buffer_never_full(s, c, d) ==
    IF s.halted THEN s
    ELSE LET s1 == IF internal_size(s) > internal_capacity(s)
                   THEN IF auto_flush(s)
                        THEN flush(s, d)
                        ELSE [s EXCEPT !.overrun_occurred_ = TRUE]
                   ELSE s
         IN  IF s1.halted THEN s1 ELSE log_putc(s1, c)

\* d is the number of flush() calls on the stack. A call that has not returned
\* (halted) unwinds nothing: every function is the identity on a halted object.
log_add_char_to_buffer(s, c, d) ==
    IF s.halted THEN s
    ELSE LET s1 == IF internal_size(s) = internal_capacity(s)
                   THEN IF auto_flush(s)
                        THEN flush(s, d)
                        ELSE [s EXCEPT !.overrun_occurred_ = TRUE]
                   ELSE s
         IN  IF s1.halted THEN s1 ELSE log_putc(s1, c)

\* fctprintf(&log_add_char_to_buffer_bounce, this, ...): one call per rendered character
fctprintf(s, str, d) ==
    IF s.halted \/ str = <<>> THEN s
    ELSE fctprintf(log_add_char_to_buffer(s, Head(str), d), Tail(str), d)

\* The rendered characters as the console takes them
RECURSIVE console_write(_, _)
console_write(s, str) ==
    IF str = <<>> THEN s ELSE console_write(Emit(s, "printf", Head(str)), Tail(str))

\* printf(...): nothing arrives when there is no console; print does not use
\* the value printf returns
printf(s, str) ==
    IF s.console = "ok" THEN console_write(s, str) ELSE s

\* print that echoes before it stores
print_echo_first(s, str, d) ==
    IF s.halted THEN s
    ELSE fctprintf(IF s.echo_ THEN printf(s, str) ELSE s, str, d)

print(s, str, d) ==
    IF s.halted THEN s
    ELSE LET s1 == fctprintf(s, str, d)
         IN  IF s1.halted THEN s1
             ELSE IF s1.echo_ THEN printf(s1, str) ELSE s1

\* log that tests only the level, not enabled_
log_ignores_enabled(s, l, str, d) ==
    IF s.halted THEN s
    ELSE IF l <= s.level_
         THEN print(log_customprefix(print(s, LOG_LEVEL_TO_SHORT_C_STRING(l), d), d), str, d)
         ELSE s

log(s, l, str, d) ==
    IF s.halted THEN s
    ELSE IF s.enabled_ /\ l <= s.level_
         THEN print(log_customprefix(print(s, LOG_LEVEL_TO_SHORT_C_STRING(l), d), d), str, d)
         ELSE s

\* log_interrupt that suspends echo but not auto-flush
log_interrupt_keeps_auto_flush(s, l, str, d) ==
    IF s.halted THEN s
    ELSE IF s.enabled_ /\ l <= s.level_
         THEN LET echo_setting == echo_set(s, FALSE)
                  s1 == print(log_customprefix(
                            print(echo_setting.s, LOG_LEVEL_TO_SHORT_C_STRING(l), d), d), str, d)
              IN  echo_set(s1, echo_setting.ret).s
         ELSE s

log_interrupt(s, l, str, d) ==
    IF s.halted THEN s
    ELSE IF s.enabled_ /\ l <= s.level_
         THEN LET flush_setting == auto_flush_set(s, FALSE)
                  echo_setting == echo_set(flush_setting.s, FALSE)
                  s1 == print(log_customprefix(
                            print(echo_setting.s, LOG_LEVEL_TO_SHORT_C_STRING(l), d), d), str, d)
              IN  echo_set(auto_flush_set(s1, flush_setting.ret).s, echo_setting.ret).s
         ELSE s

critical(s, str, d) == log(s, LOG_LEVEL_CRITICAL, str, d)

\* flush() without the test internal_size() > 0
flush_unguarded(s, d) ==
    IF s.halted THEN s
    ELSE IF d >= MaxFlushDepth THEN [s EXCEPT !.halted = TRUE]
    ELSE LET s1 == flush_(Emit(s, "flush", 0))
             s2 == IF s1.overrun_occurred_
                   THEN LET s3 == critical(s1, OverrunNotice, d + 1)
                        IN  IF s3.halted THEN s3 ELSE flush_(s3)
                   ELSE s1
         IN  IF s2.halted THEN s2 ELSE [s2 EXCEPT !.overrun_occurred_ = FALSE]

\* LoggerBase::flush. A flush() entered with MaxFlushDepth flush() calls already
\* on the stack is not followed further: the call is recorded as never returning.
flush(s, d) ==
    IF s.halted THEN s
    ELSE IF d >= MaxFlushDepth THEN [s EXCEPT !.halted = TRUE]
    ELSE LET s0 == Emit(s, "flush", 0)
         IN  IF internal_size(s0) > 0
             THEN LET s1 == flush_(s0)
                      s2 == IF s1.overrun_occurred_
                            THEN LET s3 == critical(s1, OverrunNotice, d + 1)
                                 IN  IF s3.halted THEN s3 ELSE flush_(s3)
                            ELSE s1
                  IN  IF s2.halted THEN s2 ELSE [s2 EXCEPT !.overrun_occurred_ = FALSE]
             ELSE s0

\* clear() that persists the buffer instead of discarding it
clear_by_flush(s) == flush(s, 0)

clear(s) == clear_([s EXCEPT !.overrun_occurred_ = FALSE])

----------------------------------------------------------------------------
(* LoggerBase's methods on a TeensyRobustModuleLogger: the virtual calls      *)
(* internal_capacity(), log_customprefix(), flush_() and clear_() resolve to  *)
(* its overrides. ms is what millis() returns while the call runs.            *)

\* "%d"
RECURSIVE Decimal(_)
Decimal(n) == IF n < 10 THEN <<48 + n>> ELSE Decimal(n \div 10) \o <<48 + (n % 10)>>

\* "[%d ms] " rendered with millis()
TimePrefix(ms) == <<91>> \o Decimal(ms) \o <<32, 109, 115, 93, 32>>

\* TeensyRobustModuleLogger::internal_size
TeensyRobustModuleLogger_internal_size(s) == size(s.cb)

\* TeensyRobustModuleLogger::internal_capacity
TeensyRobustModuleLogger_internal_capacity(s) ==
    IF s.fallback_to_eeprom_ THEN s.eeprom_log_size_ ELSE capacity(s.cb)

RECURSIVE TeensyRobustModuleLogger_flush(_, _, _)
RECURSIVE TeensyRobustModuleLogger_log_add_char_to_buffer(_, _, _, _)
RECURSIVE TeensyRobustModuleLogger_fctprintf(_, _, _, _)
RECURSIVE TeensyRobustModuleLogger_print(_, _, _, _)
RECURSIVE TeensyRobustModuleLogger_prints(_, _, _, _)
RECURSIVE TeensyRobustModuleLogger_log(_, _, _, _, _)

\* log_add_char_to_buffer, second statement: log_putc(c), reached when the
\* first statement returned
TeensyRobustModuleLogger_store(s, c) == IF s.halted THEN s ELSE log_putc(s, c)

\* log_add_char_to_buffer, first statement:
\* if(internal_size() == internal_capacity())
\*     { if(auto_flush()) flush(); else overrun_occurred_ = true; }
TeensyRobustModuleLogger_make_room(s, ms, d) ==
    IF TeensyRobustModuleLogger_internal_size(s) = TeensyRobustModuleLogger_internal_capacity(s)
    THEN IF auto_flush(s)
         THEN TeensyRobustModuleLogger_flush(s, ms, d)
         ELSE [s EXCEPT !.overrun_occurred_ = TRUE]
    ELSE s

\* LoggerBase::log_add_char_to_buffer
TeensyRobustModuleLogger_log_add_char_to_buffer(s, c, ms, d) ==
    IF s.halted THEN s
    ELSE TeensyRobustModuleLogger_store(TeensyRobustModuleLogger_make_room(s, ms, d), c)

\* fctprintf(&log_add_char_to_buffer_bounce, this, ...)
TeensyRobustModuleLogger_fctprintf(s, str, ms, d) ==
    IF s.halted \/ str = <<>> THEN s
    ELSE TeensyRobustModuleLogger_fctprintf(
             TeensyRobustModuleLogger_log_add_char_to_buffer(s, Head(str), ms, d),
             Tail(str), ms, d)

\* print, second statement: if(echo_) printf(...)
TeensyRobustModuleLogger_echo(s, str) ==
    IF s.halted THEN s
    ELSE IF s.echo_ THEN printf(s, str) ELSE s

\* LoggerBase::print
TeensyRobustModuleLogger_print(s, str, ms, d) ==
    IF s.halted THEN s
    ELSE TeensyRobustModuleLogger_echo(TeensyRobustModuleLogger_fctprintf(s, str, ms, d), str)

\* The print calls of one log call, one after the other
TeensyRobustModuleLogger_prints(s, strs, ms, d) ==
    IF strs = <<>> THEN s
    ELSE TeensyRobustModuleLogger_prints(
             TeensyRobustModuleLogger_print(s, Head(strs), ms, d), Tail(strs), ms, d)

\* LoggerBase::log : print(LOG_LEVEL_TO_SHORT_C_STRING(l)); log_customprefix();
\* printf(fmt, args...), where TeensyRobustModuleLogger::log_customprefix is
\* print("[%d ms] ", millis())
TeensyRobustModuleLogger_log(s, l, str, ms, d) ==
    IF s.halted THEN s
    ELSE IF s.enabled_ /\ l <= s.level_
         THEN TeensyRobustModuleLogger_prints(
                  s, <<LOG_LEVEL_TO_SHORT_C_STRING(l), TimePrefix(ms), str>>, ms, d)
         ELSE s

\* flush(), last statement: overrun_occurred_ = false
TeensyRobustModuleLogger_flush_done(s) ==
    IF s.halted THEN s ELSE [s EXCEPT !.overrun_occurred_ = FALSE]

\* flush(), after critical("Log buffer overrun detected\n") returned: flush_()
TeensyRobustModuleLogger_flush_notice(s) ==
    IF s.halted THEN s ELSE TeensyRobustModuleLogger_flush_(s)

\* flush(), after the first flush_():
\* if(overrun_occurred_) { critical(...); flush_(); }
TeensyRobustModuleLogger_overrun_notice(s, ms, d) ==
    IF s.overrun_occurred_
    THEN TeensyRobustModuleLogger_flush_notice(
             TeensyRobustModuleLogger_log(s, LOG_LEVEL_CRITICAL, OverrunNotice, ms, d))
    ELSE s

\* flush(), entered: if(internal_size() > 0) { flush_(); ... }
TeensyRobustModuleLogger_flush_body(s, ms, d) ==
    IF TeensyRobustModuleLogger_internal_size(s) > 0
    THEN TeensyRobustModuleLogger_flush_done(
             TeensyRobustModuleLogger_overrun_notice(
                 TeensyRobustModuleLogger_flush_(s), ms, d + 1))
    ELSE s

\* LoggerBase::flush. A flush() entered with MaxFlushDepth flush() calls already
\* on the stack is not followed further: the call is recorded as never returning.
TeensyRobustModuleLogger_flush(s, ms, d) ==
    IF s.halted THEN s
    ELSE IF d >= MaxFlushDepth THEN [s EXCEPT !.halted = TRUE]
    ELSE TeensyRobustModuleLogger_flush_body(Emit(s, "flush", 0), ms, d)

\* log_interrupt, last statements: auto_flush(flush_setting); echo(echo_setting)
TeensyRobustModuleLogger_restore(s, flush_setting, echo_setting) ==
    [s EXCEPT !.auto_flush_ = flush_setting, !.echo_ = echo_setting]

\* LoggerBase::log_interrupt
TeensyRobustModuleLogger_log_interrupt(s, l, str, ms) ==
    IF s.halted THEN s
    ELSE IF s.enabled_ /\ l <= s.level_
         THEN TeensyRobustModuleLogger_restore(
                  TeensyRobustModuleLogger_prints(
                      [s EXCEPT !.auto_flush_ = FALSE, !.echo_ = FALSE],
                      <<LOG_LEVEL_TO_SHORT_C_STRING(l), TimePrefix(ms), str>>, ms, 0),
                  s.auto_flush_, s.echo_)
         ELSE s

\* a module overload that does not look at the module table
TeensyRobustModuleLogger_log_module_unfiltered(s, module_id, l, str, ms) ==
    TeensyRobustModuleLogger_log(s, l, str, ms, 0)

\* critical(module_id, fmt, ...), error(module_id, ...), warning(module_id, ...),
\* info(module_id, ...), debug(module_id, ...): l is the level the overload is
\* named after
TeensyRobustModuleLogger_log_module(s, module_id, l, str, ms) ==
    IF s.module_levels_[module_id] >= l
    THEN TeensyRobustModuleLogger_log(s, l, str, ms, 0)
    ELSE s

\* critical_interrupt(module_id, fmt, ...), ..., debug_interrupt(module_id, ...)
TeensyRobustModuleLogger_log_interrupt_module(s, module_id, l, str, ms) ==
    IF s.module_levels_[module_id] >= l
    THEN TeensyRobustModuleLogger_log_interrupt(s, l, str, ms)
    ELSE s

\* LoggerBase::clear
TeensyRobustModuleLogger_clear(s) == clear_([s EXCEPT !.overrun_occurred_ = FALSE])

----------------------------------------------------------------------------
(* The state as one logger object, and the calls as actions *)

St == [cb |-> log_buffer_, enabled_ |-> enabled_, auto_flush_ |-> auto_flush_,
       overrun_occurred_ |-> overrun_occurred_, level_ |-> level_, echo_ |-> echo_,
       halted |-> halted, ev |-> <<>>,
       vptr |-> vptr, fs_ |-> fs_, fallback_to_eeprom_ |-> fallback_to_eeprom_,
       eeprom_log_size_ |-> eeprom_log_size_, eeprom_write_pos_ |-> eeprom_write_pos_,
       eeprom_full_ |-> eeprom_full_, EEPROM |-> EEPROM, module_levels_ |-> module_levels_,
       card |-> card, persisted |-> persisted, console |-> console]

\* The scalar part of the object a call starts from
Pre == [size |-> size(log_buffer_), head_ |-> log_buffer_.head_, tail_ |-> log_buffer_.tail_,
        full_ |-> log_buffer_.full_, enabled_ |-> enabled_, auto_flush_ |-> auto_flush_,
        overrun_occurred_ |-> overrun_occurred_, level_ |-> level_, echo_ |-> echo_]

NoCall == [op |-> "none", l |-> 0, str |-> <<>>, size |-> 0]

\* A call: its name, its arguments, what it started from; flush() also keeps
\* the name, arguments and starting size of the call before it
Call(op, l, str, en) ==
    [op |-> op, l |-> l, str |-> str, en |-> en, pre |-> Pre,
     prev |-> IF op = "flush"
              THEN [op |-> call.op, l |-> call.l, str |-> call.str, size |-> call.pre.size]
              ELSE NoCall]

\* No foreground call is in progress
NoFrame == [pc |-> "idle", head |-> 0, tail |-> 0, bytes_written |-> 0, item |-> 0,
            irq |-> 0, flushes |-> 0, base |-> <<>>, isr_overrun |-> FALSE]

\* The object became s, the call on record c and the foreground frame f
Becomes(s, c, f) ==
    /\ log_buffer_' = s.cb
    /\ enabled_' = s.enabled_
    /\ auto_flush_' = s.auto_flush_
    /\ overrun_occurred_' = s.overrun_occurred_
    /\ level_' = s.level_
    /\ echo_' = s.echo_
    /\ halted' = s.halted
    /\ events' = s.ev
    /\ call' = c
    /\ vptr' = s.vptr
    /\ fs_' = s.fs_
    /\ fallback_to_eeprom_' = s.fallback_to_eeprom_
    /\ eeprom_log_size_' = s.eeprom_log_size_
    /\ eeprom_write_pos_' = s.eeprom_write_pos_
    /\ eeprom_full_' = s.eeprom_full_
    /\ EEPROM' = s.EEPROM
    /\ module_levels_' = s.module_levels_
    /\ card' = s.card
    /\ persisted' = s.persisted
    /\ console' = s.console
    /\ fg' = f

\* The call op(...) ran from the current state and left the object as s
Returns(s, c) == Becomes(s, c, fg)

\* A CircularLogBufferLogger: no file system, no EEPROM window, no module table
NoDevice ==
    /\ vptr = "CircularLogBufferLogger"
    /\ fs_ = FALSE
    /\ fallback_to_eeprom_ = FALSE
    /\ eeprom_log_size_ = 0
    /\ eeprom_write_pos_ = 0
    /\ eeprom_full_ = FALSE
    /\ EEPROM = <<>>
    /\ module_levels_ = <<>>
    /\ card = "ok"
    /\ persisted = <<>>
    /\ console = "ok"
    /\ fg = NoFrame

LOG_EN_DEFAULT == TRUE
LOG_AUTOFLUSH_DEFAULT == FALSE
LOG_ECHO_EN_DEFAULT == FALSE

\* CircularLogBufferLogger<TBufferSize>(), or CircularLogBufferLogger<TBufferSize>(enable)
Init ==
    /\ \E TBufferSize \in Capacities : log_buffer_ = CircularBuffer(TBufferSize)
    /\ enabled_ \in {LOG_EN_DEFAULT, FALSE}
    /\ auto_flush_ = LOG_AUTOFLUSH_DEFAULT
    /\ overrun_occurred_ = FALSE
    /\ level_ = LOG_LEVEL_LIMIT
    /\ echo_ = LOG_ECHO_EN_DEFAULT
    /\ halted = FALSE
    /\ events = <<>>
    /\ call = [op |-> "init", l |-> 0, str |-> <<>>, en |-> FALSE, pre |-> Pre, prev |-> NoCall]
    /\ pushed = <<>>
    /\ got = <<>>
    /\ live = 0
    /\ fifo_run = TRUE
    /\ NoDevice

Log(l, str) ==
    /\ ~halted
    /\ Returns(log(St, l, str, 0), Call("log", l, str, FALSE))
    /\ UNCHANGED <<pushed, got, live, fifo_run>>

LogInterrupt(l, str) ==
    /\ ~halted
    /\ Returns(log_interrupt(St, l, str, 0), Call("log_interrupt", l, str, FALSE))
    /\ UNCHANGED <<pushed, got, live, fifo_run>>

PrintStr(str) ==
    /\ ~halted
    /\ Returns(print(St, str, 0), Call("print", 0, str, FALSE))
    /\ UNCHANGED <<pushed, got, live, fifo_run>>

Flush ==
    /\ ~halted
    /\ Returns(flush(St, 0), Call("flush", 0, <<>>, FALSE))
    /\ UNCHANGED <<pushed, got, live, fifo_run>>

Clear ==
    /\ ~halted
    /\ Returns(clear(St), Call("clear", 0, <<>>, FALSE))
    /\ UNCHANGED <<pushed, got, live, fifo_run>>

Level(l) ==
    /\ ~halted
    /\ Returns(level_set(St, l).s, Call("level", l, <<>>, FALSE))
    /\ UNCHANGED <<pushed, got, live, fifo_run>>

Echo(en) ==
    /\ ~halted
    /\ Returns(echo_set(St, en).s, Call("echo", 0, <<>>, en))
    /\ UNCHANGED <<pushed, got, live, fifo_run>>

AutoFlush(en) ==
    /\ ~halted
    /\ Returns(auto_flush_set(St, en).s, Call("auto_flush", 0, <<>>, en))
    /\ UNCHANGED <<pushed, got, live, fifo_run>>

Next ==
    \/ \E l \in Levels, str \in Messages : Log(l, str)
    \/ \E l \in Levels, str \in Messages : LogInterrupt(l, str)
    \/ \E str \in Messages : PrintStr(str)
    \/ Flush
    \/ Clear
    \/ \E l \in LevelArgs : Level(l)
    \/ \E en \in BOOLEAN : Echo(en)
    \/ \E en \in BOOLEAN : AutoFlush(en)

Spec == Init /\ [][Next]_vars

----------------------------------------------------------------------------
(* The same logger with a buffer that holds a whole record with a four *)
(* character level prefix: log, flush, clear and the auto-flush switch  *)

RecordCapacities ==
    (Len(LOG_LEVEL_DEBUG_PREFIX) + 1)..(Len(LOG_LEVEL_DEBUG_PREFIX) + MaxBodyLen + 1)

\* CircularLogBufferLogger<TBufferSize>()
InitRecords ==
    /\ \E TBufferSize \in RecordCapacities : log_buffer_ = CircularBuffer(TBufferSize)
    /\ enabled_ = LOG_EN_DEFAULT
    /\ auto_flush_ = LOG_AUTOFLUSH_DEFAULT
    /\ overrun_occurred_ = FALSE
    /\ level_ = LOG_LEVEL_LIMIT
    /\ echo_ = LOG_ECHO_EN_DEFAULT
    /\ halted = FALSE
    /\ events = <<>>
    /\ call = [op |-> "init", l |-> 0, str |-> <<>>, en |-> FALSE, pre |-> Pre, prev |-> NoCall]
    /\ pushed = <<>>
    /\ got = <<>>
    /\ live = 0
    /\ fifo_run = TRUE
    /\ NoDevice

NextRecords ==
    \/ \E l \in Levels, str \in Bodies : Log(l, str)
    \/ Flush
    \/ Clear
    \/ \E en \in BOOLEAN : AutoFlush(en)

SpecRecords == InitRecords /\ [][NextRecords]_vars

----------------------------------------------------------------------------
(* The same logger with a buffer that holds a whole overrun notice record:  *)
(* the flush() of a flagged buffer returns, in the middle of a log or print *)
(* call too, and the console echo can be compared with what the call stored *)

NoticeCapacities ==
    (Len(LOG_LEVEL_CRITICAL_PREFIX) + Len(OverrunNotice))..
        (Len(LOG_LEVEL_CRITICAL_PREFIX) + Len(OverrunNotice) + MaxSlack)

\* CircularLogBufferLogger<TBufferSize>()
InitNotice ==
    /\ \E TBufferSize \in NoticeCapacities : log_buffer_ = CircularBuffer(TBufferSize)
    /\ enabled_ = LOG_EN_DEFAULT
    /\ auto_flush_ = LOG_AUTOFLUSH_DEFAULT
    /\ overrun_occurred_ = FALSE
    /\ level_ = LOG_LEVEL_LIMIT
    /\ echo_ = LOG_ECHO_EN_DEFAULT
    /\ halted = FALSE
    /\ events = <<>>
    /\ call = [op |-> "init", l |-> 0, str |-> <<>>, en |-> FALSE, pre |-> Pre, prev |-> NoCall]
    /\ pushed = <<>>
    /\ got = <<>>
    /\ live = 0
    /\ fifo_run = TRUE
    /\ NoDevice

Consoles == {"ok", "absent"}

\* The console is attached or detached (followed while the program runs)
ConsoleFault(c) ==
    /\ ~halted
    /\ console' = c
    /\ UNCHANGED <<log_buffer_, enabled_, auto_flush_, overrun_occurred_, level_, echo_,
                   halted, events, call, pushed, got, live, fifo_run,
                   vptr, fs_, fallback_to_eeprom_, eeprom_log_size_, eeprom_write_pos_,
                   eeprom_full_, EEPROM, module_levels_, card, persisted, fg>>

NextNotice ==
    \/ \E str \in Messages : Log(LOG_LEVEL_DEBUG, str)
    \/ \E str \in Messages : PrintStr(LOG_LEVEL_TO_SHORT_C_STRING(LOG_LEVEL_DEBUG) \o str)
    \/ \E en \in BOOLEAN : Echo(en)
    \/ \E en \in BOOLEAN : AutoFlush(en)
    \/ \E c \in Consoles : ConsoleFault(c)

SpecNotice == InitNotice /\ [][NextNotice]_vars

----------------------------------------------------------------------------
(* The overrides of a logger whose flush_ is writeBufferToSDFile, driven as  *)
(* LoggerBase drives them: log_putc for every accepted byte, flush_, clear_. *)
(* The object is a TeensyRobustModuleLogger after begin(SdFs&); SDFileLogger, *)
(* TeensySDRotationalLogger and AVRSDRotationalLogger have the same three    *)
(* overrides. The RAM buffer has 1..MaxCapacity bytes here, where the code   *)
(* has BUFFER_SIZE.                                                          *)

\* The bytes log_putc is handed
Chars == {97, 98}

\* ArduinoLogger.h's default, which the SD loggers do not override
LOG_AUTOFLUSH_DEFAULT_BASE == TRUE

\* How the card answers: every byte written, one byte short per write, no byte
\* written, the file cannot be opened
Cards == {"ok", "short", "fail", "dead"}

\* log_level_e module_levels_[TModuleCount] = {log_level_e(LOG_LEVEL)};
\* the first element is given, the others are value-initialised (0, off)
ModuleLevelsInit(TModuleCount) ==
    [m \in 0..(TModuleCount - 1) |-> IF m = 0 THEN LOG_LEVEL ELSE 0]

InitSD ==
    /\ \E BUFFER_SIZE \in Capacities : log_buffer_ = CircularBuffer(BUFFER_SIZE)
    /\ enabled_ = LOG_EN_DEFAULT
    /\ auto_flush_ = LOG_AUTOFLUSH_DEFAULT_BASE
    /\ overrun_occurred_ = FALSE
    /\ level_ = LOG_LEVEL_LIMIT
    /\ echo_ = LOG_ECHO_EN_DEFAULT
    /\ halted = FALSE
    /\ events = <<>>
    /\ call = [op |-> "init", l |-> 0, str |-> <<>>, en |-> FALSE, pre |-> Pre, prev |-> NoCall]
    /\ pushed = <<>>
    /\ got = <<>>
    /\ live = 0
    /\ fifo_run = TRUE
    /\ vptr = "TeensyRobustModuleLogger"
    /\ fs_ = TRUE
    /\ fallback_to_eeprom_ = FALSE
    /\ eeprom_log_size_ = 0
    /\ eeprom_write_pos_ = 0
    /\ eeprom_full_ = FALSE
    /\ EEPROM = <<>>
    /\ module_levels_ = ModuleLevelsInit(1)
    /\ card = "ok"
    /\ persisted = <<>>
    /\ console = "ok"
    /\ fg = NoFrame

\* The card starts to answer differently (followed while the program runs)
CardFault(c) ==
    /\ ~halted
    /\ card' = c
    /\ UNCHANGED <<log_buffer_, enabled_, auto_flush_, overrun_occurred_, level_, echo_,
                   halted, events, call, pushed, got, live, fifo_run,
                   vptr, fs_, fallback_to_eeprom_, eeprom_log_size_, eeprom_write_pos_,
                   eeprom_full_, EEPROM, module_levels_, persisted, console, fg>>

\* log_putc(c), called by log_add_char_to_buffer
LogPutc(c) ==
    /\ ~halted
    /\ Returns(log_putc(St, c), Call("log_putc", 0, <<c>>, FALSE))
    /\ UNCHANGED <<pushed, got, live, fifo_run>>

\* flush_(), called by flush() when internal_size() > 0
FlushOverride ==
    /\ ~halted
    /\ internal_size(St) > 0
    /\ Returns(TeensyRobustModuleLogger_flush_(St), Call("flush_", 0, <<>>, FALSE))
    /\ UNCHANGED <<pushed, got, live, fifo_run>>

\* clear_(), called by clear()
ClearOverride ==
    /\ ~halted
    /\ Returns(clear_(St), Call("clear_", 0, <<>>, FALSE))
    /\ UNCHANGED <<pushed, got, live, fifo_run>>

NextSD ==
    \/ \E c \in Chars : LogPutc(c)
    \/ FlushOverride
    \/ ClearOverride
    \/ \E c \in Cards : CardFault(c)

SpecSD == InitSD /\ [][NextSD]_vars

----------------------------------------------------------------------------
(* The same three overrides of a TeensySDRotationalModuleLogger after        *)
(* begin(SdFs&): its writeBufferToSDFile has a text of its own.              *)

\* What an element behind the storage array can read as
Beyond == Chars \cup {Indeterminate}

InitSDModule ==
    /\ \E BUFFER_SIZE \in Capacities : log_buffer_ = CircularBuffer(BUFFER_SIZE)
    /\ enabled_ = LOG_EN_DEFAULT
    /\ auto_flush_ = LOG_AUTOFLUSH_DEFAULT_BASE
    /\ overrun_occurred_ = FALSE
    /\ level_ = LOG_LEVEL_LIMIT
    /\ echo_ = LOG_ECHO_EN_DEFAULT
    /\ halted = FALSE
    /\ events = <<>>
    /\ call = [op |-> "init", l |-> 0, str |-> <<>>, en |-> FALSE, pre |-> Pre, prev |-> NoCall]
    /\ pushed = <<>>
    /\ got = <<>>
    /\ live = 0
    /\ fifo_run = TRUE
    /\ vptr = "TeensySDRotationalModuleLogger"
    /\ fs_ = TRUE
    /\ fallback_to_eeprom_ = FALSE
    /\ eeprom_log_size_ = 0
    /\ eeprom_write_pos_ = 0
    /\ eeprom_full_ = FALSE
    /\ EEPROM = <<>>
    /\ module_levels_ = ModuleLevelsInit(1)
    /\ card = "ok"
    /\ persisted = <<>>
    /\ console = "ok"
    /\ fg = NoFrame

\* flush_(), called by flush() when internal_size() > 0
ModuleFlushOverride(beyond) ==
    /\ ~halted
    /\ internal_size(St) > 0
    /\ Returns(TeensySDRotationalModuleLogger_writeBufferToSDFile(St, beyond),
               Call("flush_", 0, <<>>, FALSE))
    /\ UNCHANGED <<pushed, got, live, fifo_run>>

NextSDModule ==
    \/ \E c \in Chars : LogPutc(c)
    \/ \E beyond \in Beyond : ModuleFlushOverride(beyond)
    \/ ClearOverride
    \/ \E c \in Cards : CardFault(c)

SpecSDModule == InitSDModule /\ [][NextSDModule]_vars

----------------------------------------------------------------------------
(* The level filters: the global level of LoggerBase and the module table   *)
(* of the two module loggers, driven through their setters.                  *)

ModuleCounts == 1..MaxModuleCount
ModuleLoggers == {"TeensyRobustModuleLogger", "TeensySDRotationalModuleLogger"}

\* CircularLogBufferLogger(bool enable, log_level_e l = LOG_LEVEL_LIMIT(),
\*                         bool echo = LOG_ECHO_EN_DEFAULT)
\*     : LoggerBase(enable, l, echo): enabled_(enable), level_(l), echo_(echo)
\* The module loggers have the default constructor only.
InitModule ==
    /\ \E BUFFER_SIZE \in Capacities : log_buffer_ = CircularBuffer(BUFFER_SIZE)
    /\ vptr \in {"CircularLogBufferLogger"} \cup ModuleLoggers
    /\ IF vptr = "CircularLogBufferLogger"
       THEN /\ enabled_ \in BOOLEAN
            /\ level_ \in LevelArgs
            /\ echo_ \in BOOLEAN
            /\ auto_flush_ = LOG_AUTOFLUSH_DEFAULT
            /\ module_levels_ = ModuleLevelsInit(0)
       ELSE /\ enabled_ = LOG_EN_DEFAULT
            /\ level_ = LOG_LEVEL_LIMIT
            /\ echo_ = LOG_ECHO_EN_DEFAULT
            /\ auto_flush_ = LOG_AUTOFLUSH_DEFAULT_BASE
            /\ \E TModuleCount \in ModuleCounts :
                  module_levels_ = ModuleLevelsInit(TModuleCount)
    /\ overrun_occurred_ = FALSE
    /\ halted = FALSE
    /\ events = <<>>
    /\ call = [op |-> "init", l |-> 0, str |-> <<>>, en |-> FALSE, pre |-> Pre, prev |-> NoCall]
    /\ pushed = <<>>
    /\ got = <<>>
    /\ live = 0
    /\ fifo_run = TRUE
    /\ fs_ = FALSE
    /\ fallback_to_eeprom_ = FALSE
    /\ eeprom_log_size_ = 0
    /\ eeprom_write_pos_ = 0
    /\ eeprom_full_ = FALSE
    /\ EEPROM = <<>>
    /\ card = "ok"
    /\ persisted = <<>>
    /\ console = "ok"
    /\ fg = NoFrame

\* LoggerBase::level(l); the value it returns is kept as a "ret" event
SetLevel(l) ==
    /\ ~halted
    /\ LET r == level_set(St, l)
       IN  Returns(Emit(r.s, "ret", r.ret), Call("level", l, <<>>, FALSE))
    /\ UNCHANGED <<pushed, got, live, fifo_run>>

\* level(module_id, l) of a module logger, for a module id of its table
SetModuleLevel(module_id, l) ==
    /\ ~halted
    /\ vptr \in ModuleLoggers
    /\ module_id \in DOMAIN module_levels_
    /\ LET r == level_module_set(St, module_id, l)
       IN  Returns(Emit(r.s, "ret", r.ret), Call("level_module", l, <<module_id>>, FALSE))
    /\ UNCHANGED <<pushed, got, live, fifo_run>>

\* Values a read past the end of module_levels_ is followed to give
Strays == {LOG_LEVEL_OFF, LOG_LEVEL_MAX + 1}

\* The expression logger.level(l), l a log_level_e, on a module logger; the
\* value it returns is kept as a "ret" event
LevelExpression(l, beyond) ==
    /\ ~halted
    /\ vptr \in ModuleLoggers
    /\ LET r == IF vptr = "TeensySDRotationalModuleLogger"
                THEN TeensySDRotationalModuleLogger_level(St, l, beyond)
                ELSE TeensyRobustModuleLogger_level(St, l)
       IN  Returns(Emit(r.s, "ret", r.ret), Call("level(log_level_e)", l, <<>>, FALSE))
    /\ UNCHANGED <<pushed, got, live, fifo_run>>

NextModule ==
    \/ \E l \in LevelArgs : SetLevel(l)
    \/ \E m \in 0..(MaxModuleCount - 1), l \in LevelArgs : SetModuleLevel(m, l)
    \/ \E l \in LevelArgs, beyond \in Strays : LevelExpression(l, beyond)

SpecModule == InitModule /\ [][NextModule]_vars

----------------------------------------------------------------------------
(* The same overrides of a TeensyRobustModuleLogger after begin(address,    *)
(* size): flush_ writes the buffer to the EEPROM window byte by byte.        *)

EepromSizes == 1..MaxEepromSize

\* An EEPROM cell that no flush has written yet (erased, or left by an earlier log)
StaleByte == 255

InitEEPROM ==
    /\ \E BUFFER_SIZE \in Capacities : log_buffer_ = CircularBuffer(BUFFER_SIZE)
    /\ enabled_ = LOG_EN_DEFAULT
    /\ auto_flush_ = LOG_AUTOFLUSH_DEFAULT_BASE
    /\ overrun_occurred_ = FALSE
    /\ level_ = LOG_LEVEL_LIMIT
    /\ echo_ = LOG_ECHO_EN_DEFAULT
    /\ halted = FALSE
    /\ events = <<>>
    /\ call = [op |-> "init", l |-> 0, str |-> <<>>, en |-> FALSE, pre |-> Pre, prev |-> NoCall]
    /\ pushed = <<>>
    /\ got = <<>>
    /\ live = 0
    /\ fifo_run = TRUE
    /\ vptr = "TeensyRobustModuleLogger"
    /\ fs_ = FALSE
    /\ fallback_to_eeprom_ = TRUE
    /\ \E window \in EepromSizes :
          /\ eeprom_log_size_ = window
          /\ EEPROM = [i \in 0..(window - 1) |-> StaleByte]
    /\ eeprom_write_pos_ = 0
    /\ eeprom_full_ = FALSE
    /\ module_levels_ = ModuleLevelsInit(1)
    /\ card = "ok"
    /\ persisted = <<>>
    /\ console = "ok"
    /\ fg = NoFrame

NextEEPROM ==
    \/ \E c \in Chars : LogPutc(c)
    \/ FlushOverride
    \/ ClearOverride

SpecEEPROM == InitEEPROM /\ [][NextEEPROM]_vars

----------------------------------------------------------------------------
(* A TeensyRobustModuleLogger after begin(address, size), driven through the *)
(* public calls of LoggerBase.                                               *)

\* Values millis() is followed to return
Millis == {7}

RobustPrint(str, ms) ==
    /\ ~halted
    /\ Returns(TeensyRobustModuleLogger_print(St, str, ms, 0), Call("print", 0, str, FALSE))
    /\ UNCHANGED <<pushed, got, live, fifo_run>>

RobustLog(l, str, ms) ==
    /\ ~halted
    /\ Returns(TeensyRobustModuleLogger_log(St, l, str, ms, 0), Call("log", l, str, FALSE))
    /\ UNCHANGED <<pushed, got, live, fifo_run>>

RobustFlush(ms) ==
    /\ ~halted
    /\ Returns(TeensyRobustModuleLogger_flush(St, ms, 0), Call("flush", 0, <<>>, FALSE))
    /\ UNCHANGED <<pushed, got, live, fifo_run>>

RobustClear ==
    /\ ~halted
    /\ Returns(TeensyRobustModuleLogger_clear(St), Call("clear", 0, <<>>, FALSE))
    /\ UNCHANGED <<pushed, got, live, fifo_run>>

NextRobust ==
    \/ \E str \in Messages, ms \in Millis : RobustPrint(str, ms)
    \/ \E str \in Messages, ms \in Millis : RobustLog(LOG_LEVEL_DEBUG, str, ms)
    \/ \E ms \in Millis : RobustFlush(ms)
    \/ RobustClear
    \/ \E en \in BOOLEAN : AutoFlush(en)

SpecRobust == InitEEPROM /\ [][NextRobust]_vars

----------------------------------------------------------------------------
(* A TeensyRobustModuleLogger<TModuleCount> as constructed, driven through   *)
(* the logging overloads that take a module id and through the level         *)
(* setters. Without begin(sd) or begin(address, size) flush_ hands the       *)
(* buffer to _putchar.                                                       *)

\* The overloads followed: critical, warning and debug
ModuleLogLevels == {LOG_LEVEL_CRITICAL, LOG_LEVEL_WARNING, LOG_LEVEL_DEBUG}

InitModuleLog ==
    /\ \E BUFFER_SIZE \in Capacities : log_buffer_ = CircularBuffer(BUFFER_SIZE)
    /\ enabled_ = LOG_EN_DEFAULT
    /\ auto_flush_ = LOG_AUTOFLUSH_DEFAULT_BASE
    /\ overrun_occurred_ = FALSE
    /\ level_ = LOG_LEVEL_LIMIT
    /\ echo_ = LOG_ECHO_EN_DEFAULT
    /\ halted = FALSE
    /\ events = <<>>
    /\ call = [op |-> "init", l |-> 0, str |-> <<>>, en |-> FALSE, pre |-> Pre, prev |-> NoCall]
    /\ pushed = <<>>
    /\ got = <<>>
    /\ live = 0
    /\ fifo_run = TRUE
    /\ vptr = "TeensyRobustModuleLogger"
    /\ fs_ = FALSE
    /\ fallback_to_eeprom_ = FALSE
    /\ eeprom_log_size_ = 0
    /\ eeprom_write_pos_ = 0
    /\ eeprom_full_ = FALSE
    /\ EEPROM = <<>>
    /\ \E TModuleCount \in ModuleCounts : module_levels_ = ModuleLevelsInit(TModuleCount)
    /\ card = "ok"
    /\ persisted = <<>>
    /\ console = "ok"
    /\ fg = NoFrame

\* A call of an overload that takes a module id: the call on record names the module
ModuleCall(op, module_id, l, str) == [module_id |-> module_id] @@ Call(op, l, str, FALSE)

ModuleLog(module_id, l, str, ms) ==
    /\ ~halted
    /\ module_id \in DOMAIN module_levels_
    /\ Returns(TeensyRobustModuleLogger_log_module(St, module_id, l, str, ms),
               ModuleCall("log_module", module_id, l, str))
    /\ UNCHANGED <<pushed, got, live, fifo_run>>

ModuleLogInterrupt(module_id, l, str, ms) ==
    /\ ~halted
    /\ module_id \in DOMAIN module_levels_
    /\ Returns(TeensyRobustModuleLogger_log_interrupt_module(St, module_id, l, str, ms),
               ModuleCall("log_interrupt_module", module_id, l, str))
    /\ UNCHANGED <<pushed, got, live, fifo_run>>

NextModuleLog ==
    \/ \E m \in 0..(MaxModuleCount - 1), l \in ModuleLogLevels, str \in Messages, ms \in Millis :
          ModuleLog(m, l, str, ms)
    \/ \E m \in 0..(MaxModuleCount - 1), l \in ModuleLogLevels, str \in Messages, ms \in Millis :
          ModuleLogInterrupt(m, l, str, ms)
    \/ \E l \in LevelArgs : SetLevel(l)
    \/ \E m \in 0..(MaxModuleCount - 1), l \in LevelArgs : SetModuleLevel(m, l)

SpecModuleLog == InitModuleLog /\ [][NextModuleLog]_vars

----------------------------------------------------------------------------
(* A TeensyRobustModuleLogger after begin(SdFs&) whose foreground calls are   *)
(* followed statement by statement: put(c), as log_putc calls it, and        *)
(* flush() with the writeBufferToSDFile it reaches. Between two statements   *)
(* an interrupt handler may run log_interrupt to completion (one core: the   *)
(* handler is not preempted by the foreground). The text of                  *)
(* writeBufferToSDFile is that of SDFileLogger and TeensySDRotationalLogger. *)

\* Interrupts and foreground flush() calls followed in one run
MaxInterrupts == 2
MaxFlushes == 1

\* The record a handler logs: log_interrupt(debug, "a") at millis() == 7
IsrMillis == 7
IsrRecord == LOG_LEVEL_TO_SHORT_C_STRING(LOG_LEVEL_DEBUG) \o TimePrefix(IsrMillis) \o Body(1)

\* A buffer that holds one record of a handler and one more byte
IsrCapacity == Len(IsrRecord) + 1

\* The byte the foreground stores
ForegroundChars == {98}

InitISR ==
    /\ log_buffer_ = CircularBuffer(IsrCapacity)
    /\ enabled_ = LOG_EN_DEFAULT
    /\ auto_flush_ \in BOOLEAN
    /\ overrun_occurred_ = FALSE
    /\ level_ = LOG_LEVEL_LIMIT
    /\ echo_ = LOG_ECHO_EN_DEFAULT
    /\ halted = FALSE
    /\ events = <<>>
    /\ call = [op |-> "init", l |-> 0, str |-> <<>>, en |-> FALSE, pre |-> Pre, prev |-> NoCall]
    /\ pushed = <<>>
    /\ got = <<>>
    /\ live = 0
    /\ fifo_run = TRUE
    /\ vptr = "TeensyRobustModuleLogger"
    /\ fs_ = TRUE
    /\ fallback_to_eeprom_ = FALSE
    /\ eeprom_log_size_ = 0
    /\ eeprom_write_pos_ = 0
    /\ eeprom_full_ = FALSE
    /\ EEPROM = <<>>
    /\ module_levels_ = ModuleLevelsInit(1)
    /\ card = "ok"
    /\ persisted = <<>>
    /\ console = "ok"
    /\ fg = NoFrame

\* The object during a foreground call: the events of the call so far are kept
Running == [St EXCEPT !.ev = events]

\* No foreground call is in progress any more; fg.irq and fg.flushes count the
\* interrupts and the flush() calls of the run
Idle == [NoFrame EXCEPT !.irq = fg.irq, !.flushes = fg.flushes]

\* The foreground call in progress went from statement pc to the next one
Step(pc, s, f) ==
    /\ ~halted
    /\ fg.pc = pc
    /\ Becomes(s, call, f)
    /\ UNCHANGED <<pushed, got, live, fifo_run>>

\* log_putc(c) -> log_buffer_.put(c) entered
PutEnter(c) ==
    /\ ~halted
    /\ fg.pc = "idle"
    /\ Becomes(St, Call("log_putc", 0, <<c>>, FALSE),
               [Idle EXCEPT !.pc = "slot", !.item = c, !.base = log_buffer_])
    /\ UNCHANGED <<pushed, got, live, fifo_run>>

\* buf_[head_] = item;
PutSlot ==
    Step("slot", [Running EXCEPT !.cb.buf_[log_buffer_.head_] = fg.item],
         [fg EXCEPT !.pc = "advance_tail"])

\* if(full_) { tail_ = (tail_ + 1) % max_size_; }
PutTail ==
    Step("advance_tail",
         IF log_buffer_.full_
         THEN [Running EXCEPT !.cb.tail_ = (log_buffer_.tail_ + 1) % log_buffer_.max_size_]
         ELSE Running,
         [fg EXCEPT !.pc = "advance_head"])

\* head_ = (head_ + 1) % max_size_;
PutHead ==
    Step("advance_head",
         [Running EXCEPT !.cb.head_ = (log_buffer_.head_ + 1) % log_buffer_.max_size_],
         [fg EXCEPT !.pc = "set_full"])

\* full_ = head_ == tail_; and put() returns
PutFull ==
    Step("set_full",
         Emit([Running EXCEPT !.cb.full_ = (log_buffer_.head_ = log_buffer_.tail_)],
              "put", fg.item),
         Idle)

\* flush() entered: if(internal_size() > 0)
FlushEnter ==
    /\ ~halted
    /\ fg.pc = "idle"
    /\ fg.flushes < MaxFlushes
    /\ Becomes(Emit(St, "flush", 0), Call("flush", 0, <<>>, FALSE),
               IF TeensyRobustModuleLogger_internal_size(St) > 0
               THEN [Idle EXCEPT !.pc = "open", !.flushes = @ + 1]
               ELSE [Idle EXCEPT !.flushes = @ + 1])
    /\ UNCHANGED <<pushed, got, live, fifo_run>>

\* flush_() -> writeBufferToSDFile(): if(!file_.open(...)) errorHalt(...)
WriteOpen ==
    Step("open",
         IF card = "dead" THEN errorHalt(Emit(Running, "open", 0)) ELSE Emit(Running, "open", 0),
         [fg EXCEPT !.pc = "read_head"])

\* size_t head = log_buffer_.head();
WriteHead == Step("read_head", Running, [fg EXCEPT !.pc = "read_tail", !.head = head(log_buffer_)])

\* size_t tail = log_buffer_.tail();
WriteTail == Step("read_tail", Running, [fg EXCEPT !.pc = "test", !.tail = tail(log_buffer_)])

\* if((head < tail) || ((tail > 0) && (log_buffer_.size() == log_buffer_.capacity())))
WriteTest ==
    Step("test", Running,
         [fg EXCEPT !.pc = IF (fg.head < fg.tail) \/
                              ((fg.tail > 0) /\ (size(log_buffer_) = capacity(log_buffer_)))
                           THEN "segment1" ELSE "single"])

\* bytes_written = file_.write(&buffer[tail], log_buffer_.capacity() - tail);
WriteSegment1(beyond) ==
    LET w == file_write_past(Running, fg.tail, capacity(log_buffer_) - fg.tail, beyond)
    IN  Step("segment1", w.s, [fg EXCEPT !.pc = "segment2", !.bytes_written = w.ret])

\* bytes_written += file_.write(buffer, head);
WriteSegment2(beyond) ==
    LET w == file_write_past(Running, 0, fg.head, beyond)
    IN  Step("segment2", w.s, [fg EXCEPT !.pc = "check", !.bytes_written = @ + w.ret])

\* bytes_written = file_.write(&buffer[tail], log_buffer_.size());
WriteSingle(beyond) ==
    LET w == file_write_past(Running, fg.tail, size(log_buffer_), beyond)
    IN  Step("single", w.s, [fg EXCEPT !.pc = "check", !.bytes_written = w.ret])

\* if(static_cast<size_t>(bytes_written) != log_buffer_.size()) errorHalt(...)
WriteCheck ==
    Step("check",
         IF fg.bytes_written # size(log_buffer_) THEN errorHalt(Running) ELSE Running,
         [fg EXCEPT !.pc = "reset"])

\* log_buffer_.reset();
WriteReset == Step("reset", [Running EXCEPT !.cb = reset(log_buffer_)], [fg EXCEPT !.pc = "close"])

\* file_.close(); and flush_() returns
WriteClose == Step("close", Emit(Running, "close", 0), [fg EXCEPT !.pc = "flag"])

\* if(overrun_occurred_)
FlagTest ==
    Step("flag", Running, [fg EXCEPT !.pc = IF overrun_occurred_ THEN "notice" ELSE "clear"])

\* critical("---Log buffer overrun detected---\n"); flush_();
\* (not followed statement by statement)
Notice(ms) ==
    Step("notice",
         TeensyRobustModuleLogger_flush_notice(
             TeensyRobustModuleLogger_log(Running, LOG_LEVEL_CRITICAL, OverrunNotice, ms, 1)),
         [fg EXCEPT !.pc = "clear", !.isr_overrun = FALSE])

\* overrun_occurred_ = false; and flush() returns
FlagClear == Step("clear", [Running EXCEPT !.overrun_occurred_ = FALSE], Idle)

\* An interrupt while no foreground call is in progress
IdleInterrupt(str, ms) ==
    /\ ~halted
    /\ fg.pc = "idle"
    /\ fg.irq < MaxInterrupts
    /\ Becomes(TeensyRobustModuleLogger_log_interrupt(St, LOG_LEVEL_DEBUG, str, ms),
               Call("log_interrupt", LOG_LEVEL_DEBUG, str, FALSE),
               [fg EXCEPT !.irq = @ + 1])
    /\ UNCHANGED <<pushed, got, live, fifo_run>>

\* An interrupt between two statements of the foreground call: the handler's
\* log_interrupt runs to completion. isr_overrun records that it raised
\* overrun_occurred_ and that no overrun notice was logged since.
Interrupt(str, ms) ==
    /\ ~halted
    /\ fg.pc # "idle"
    /\ fg.irq < MaxInterrupts
    /\ LET s == TeensyRobustModuleLogger_log_interrupt(Running, LOG_LEVEL_DEBUG, str, ms)
       IN  Becomes(s, call,
                   [fg EXCEPT !.irq = @ + 1,
                              !.isr_overrun = @ \/ (~overrun_occurred_ /\ s.overrun_occurred_)])
    /\ UNCHANGED <<pushed, got, live, fifo_run>>

NextISR ==
    \/ \E c \in ForegroundChars : PutEnter(c)
    \/ PutSlot
    \/ PutTail
    \/ PutHead
    \/ PutFull
    \/ FlushEnter
    \/ WriteOpen
    \/ WriteHead
    \/ WriteTail
    \/ WriteTest
    \/ \E beyond \in Beyond : WriteSegment1(beyond)
    \/ \E beyond \in Beyond : WriteSegment2(beyond)
    \/ \E beyond \in Beyond : WriteSingle(beyond)
    \/ WriteCheck
    \/ WriteReset
    \/ WriteClose
    \/ FlagTest
    \/ Notice(IsrMillis)
    \/ FlagClear
    \/ IdleInterrupt(Body(1), IsrMillis)
    \/ Interrupt(Body(1), IsrMillis)

SpecISR == InitISR /\ [][NextISR]_vars

----------------------------------------------------------------------------
(* CircularBuffer<T, TCount> driven directly *)

InitCB ==
    /\ \E TCount \in Capacities : log_buffer_ = CircularBuffer(TCount)
    /\ enabled_ = LOG_EN_DEFAULT
    /\ auto_flush_ = LOG_AUTOFLUSH_DEFAULT
    /\ overrun_occurred_ = FALSE
    /\ level_ = LOG_LEVEL_LIMIT
    /\ echo_ = LOG_ECHO_EN_DEFAULT
    /\ halted = FALSE
    /\ events = <<>>
    /\ call = [op |-> "init", l |-> 0, str |-> <<>>, en |-> FALSE, pre |-> Pre, prev |-> NoCall]
    /\ pushed = <<>>
    /\ got = <<>>
    /\ live = 0
    /\ fifo_run = TRUE
    /\ NoDevice

\* Reference bookkeeping for a run "puts on an empty buffer, then gets":
\*   live      number of items put and neither taken by get() nor evicted
\*   pushed    the items put since the buffer was last empty
\*   got       the values the get() calls returned after those puts
\*   fifo_run  FALSE once a put follows a get on a non-empty buffer
Put(item) ==
    /\ (live # 0 /\ fifo_run /\ got = <<>>)
          => Len(pushed) < capacity(log_buffer_) + MaxOverwrite
    /\ log_buffer_' = put(log_buffer_, item)
    /\ events' = <<Event("put", item)>>
    /\ call' = Call("put", 0, <<item>>, FALSE)
    /\ live' = IF live < capacity(log_buffer_) THEN live + 1 ELSE live
    /\ IF live = 0
       THEN pushed' = <<item>> /\ got' = <<>> /\ fifo_run' = TRUE
       ELSE IF fifo_run /\ got = <<>>
            THEN pushed' = Append(pushed, item) /\ got' = <<>> /\ fifo_run' = TRUE
            ELSE pushed' = <<>> /\ got' = <<>> /\ fifo_run' = FALSE
    /\ UNCHANGED <<enabled_, auto_flush_, overrun_occurred_, level_, echo_, halted, device>>

Get ==
    LET g == get(log_buffer_)
    IN  /\ log_buffer_' = g.cb
        /\ events' = <<Event("get", g.val)>>
        /\ call' = Call("get", 0, <<>>, FALSE)
        /\ live' = IF live > 0 THEN live - 1 ELSE 0
        /\ got' = IF live > 0 /\ fifo_run THEN Append(got, g.val) ELSE got
        /\ UNCHANGED <<pushed, fifo_run>>
        /\ UNCHANGED <<enabled_, auto_flush_, overrun_occurred_, level_, echo_, halted, device>>

Reset ==
    /\ log_buffer_' = reset(log_buffer_)
    /\ events' = <<>>
    /\ call' = Call("reset", 0, <<>>, FALSE)
    /\ live' = 0
    /\ pushed' = <<>>
    /\ got' = <<>>
    /\ fifo_run' = TRUE
    /\ UNCHANGED <<enabled_, auto_flush_, overrun_occurred_, level_, echo_, halted, device>>

NextCB ==
    \/ \E item \in Items : Put(item)
    \/ Get
    \/ Reset

SpecCB == InitCB /\ [][NextCB]_vars

----------------------------------------------------------------------------
(* CircularBuffer<T, 0>: the instantiation that CircularLogBufferLogger<0>   *)
(* ("set to 0 to disable logging completely") holds. buf_ has no element and *)
(* max_size_ is 0, so put() and get() index past buf_ and evaluate x % 0.    *)
(* Both are undefined: the division either traps (the call never returns)   *)
(* or yields some value, which the model draws from Remainders.             *)

Remainders == 0..MaxRemainder

\* put() on TCount == 0 when the two x % max_size_ yield rt and rh
put_undefined(cb, item, rt, rh) ==
    LET t1 == IF cb.full_ THEN rt ELSE cb.tail_
    IN  [cb EXCEPT !.tail_ = t1, !.head_ = rh, !.full_ = (rh = t1)]

\* get() on TCount == 0, not empty, when x % max_size_ yields rt
get_undefined(cb, rt) == [cb EXCEPT !.full_ = FALSE, !.tail_ = rt]

InitZero ==
    /\ log_buffer_ = CircularBuffer(0)
    /\ enabled_ = LOG_EN_DEFAULT
    /\ auto_flush_ = LOG_AUTOFLUSH_DEFAULT
    /\ overrun_occurred_ = FALSE
    /\ level_ = LOG_LEVEL_LIMIT
    /\ echo_ = LOG_ECHO_EN_DEFAULT
    /\ halted = FALSE
    /\ events = <<>>
    /\ call = [op |-> "init", l |-> 0, str |-> <<>>, en |-> FALSE, pre |-> Pre, prev |-> NoCall]
    /\ pushed = <<>>
    /\ got = <<>>
    /\ live = 0
    /\ fifo_run = TRUE
    /\ NoDevice

\* put(item) with max_size_ == 0: buf_[head_] = item writes outside buf_, then
\* (tail_ + 1) % 0 if full_, then (head_ + 1) % 0
PutZero(item) ==
    /\ ~halted
    /\ call' = Call("put", 0, <<item>>, FALSE)
    /\ \/ /\ halted' = TRUE
          /\ events' = <<Event("out_of_range", log_buffer_.head_), Event("div_by_zero", 0)>>
          /\ UNCHANGED log_buffer_
       \/ \E rt, rh \in Remainders :
             /\ log_buffer_' = put_undefined(log_buffer_, item, rt, rh)
             /\ events' = <<Event("out_of_range", log_buffer_.head_), Event("div_by_zero", 0)>>
             /\ UNCHANGED halted
    /\ UNCHANGED <<enabled_, auto_flush_, overrun_occurred_, level_, echo_, device,
                   pushed, got, live, fifo_run>>

\* get() with max_size_ == 0: T() if empty, else buf_[tail_] read outside buf_
\* and (tail_ + 1) % 0
GetZero ==
    /\ ~halted
    /\ call' = Call("get", 0, <<>>, FALSE)
    /\ IF empty(log_buffer_)
       THEN /\ events' = <<Event("get", 0)>>
            /\ UNCHANGED <<log_buffer_, halted>>
       ELSE \/ /\ halted' = TRUE
               /\ events' = <<Event("out_of_range", log_buffer_.tail_), Event("div_by_zero", 0)>>
               /\ UNCHANGED log_buffer_
            \/ \E rt \in Remainders :
                  /\ log_buffer_' = get_undefined(log_buffer_, rt)
                  /\ events' = <<Event("out_of_range", log_buffer_.tail_), Event("div_by_zero", 0)>>
                  /\ UNCHANGED halted
    /\ UNCHANGED <<enabled_, auto_flush_, overrun_occurred_, level_, echo_, device,
                   pushed, got, live, fifo_run>>

ResetZero ==
    /\ ~halted
    /\ Reset

NextZero ==
    \/ \E item \in Items : PutZero(item)
    \/ GetZero
    \/ ResetZero

SpecZero == InitZero /\ [][NextZero]_vars

----------------------------------------------------------------------------
(* Helpers of the properties *)

\* The items k successive get() calls return, k = the number of calls until empty()
RECURSIVE Contents(_)
Contents(cb) ==
    IF empty(cb) THEN <<>>
    ELSE LET g == get(cb) IN <<g.val>> \o Contents(g.cb)

LastN(seq, n) == SubSeq(seq, Len(seq) - n + 1, Len(seq))

\* The bytes of the events of kind k, in order
Bytes(ev, k) ==
    LET sel == SelectSeq(ev, LAMBDA e : e.k = k)
    IN  [i \in 1..Len(sel) |-> sel[i].c]

Count(ev, k) == Len(SelectSeq(ev, LAMBDA e : e.k = k))

\* What flush_ handed to _putchar, what print echoed with printf,
\* what log_putc stored
SinkBytes(ev) == Bytes(ev, "putchar")
ConsoleBytes(ev) == Bytes(ev, "printf")
StoredBytes(ev) == Bytes(ev, "put")

\* A record: level prefix + custom prefix (empty for this logger) + body
Record(l, str) == LOG_LEVEL_TO_SHORT_C_STRING(l) \o str

N == capacity(log_buffer_)

----------------------------------------------------------------------------
(* CircularBuffer properties, under SpecCB *)

\* C1: after k <= N put() calls on an empty buffer size() is k, nothing was
\* overwritten, and the get() calls return the items in the order they were put:
\* what get() returned so far, followed by what further get() calls return,
\* is the sequence of items put.
FifoWithinCapacity ==
    (fifo_run /\ Len(pushed) <= N) =>
        /\ got = <<>> => size(log_buffer_) = Len(pushed)
        /\ size(log_buffer_) = Len(pushed) - Len(got)
        /\ got \o Contents(log_buffer_) = pushed

FifoWithinCapacityWitness ==
    /\ call.op = "get"
    /\ fifo_run
    /\ N = MaxCapacity
    /\ Len(pushed) = N
    /\ got = pushed
    /\ \E i \in 1..Len(pushed) : pushed[i] # pushed[1]

\* C2: after k > N put() calls on an empty buffer size() == capacity() == N from
\* the N-th put on, and the get() calls return the N newest items in push order:
\* the k - N oldest are the ones evicted.
EvictOldest ==
    fifo_run =>
        /\ (got = <<>> /\ Len(pushed) >= N) =>
               (size(log_buffer_) = N /\ capacity(log_buffer_) = N /\ full(log_buffer_))
        /\ Len(pushed) > N => got \o Contents(log_buffer_) = LastN(pushed, N)

EvictOldestWitness ==
    /\ call.op = "get"
    /\ fifo_run
    /\ N = MaxCapacity
    /\ Len(pushed) = N + MaxOverwrite
    /\ got = LastN(pushed, N)
    /\ pushed[1] # pushed[N + 1]

\* C3: in every state reachable by put(), get() and reset(): head and tail are
\* in 0..N-1, full holds iff N items are live, size() is N when full and
\* (head - tail) mod N otherwise, 0 <= size() <= capacity(), and empty() iff
\* size() == 0.
RingInvariant ==
    /\ head(log_buffer_) \in 0..(N - 1)
    /\ tail(log_buffer_) \in 0..(N - 1)
    /\ full(log_buffer_) <=> (live = N)
    /\ size(log_buffer_) =
          IF full(log_buffer_) THEN N
          ELSE (head(log_buffer_) - tail(log_buffer_) + N) % N
    /\ size(log_buffer_) >= 0
    /\ size(log_buffer_) <= capacity(log_buffer_)
    /\ empty(log_buffer_) <=> (size(log_buffer_) = 0)

RingInvariantWitness ==
    /\ call.op = "put"
    /\ N = MaxCapacity
    /\ full(log_buffer_)
    /\ live = N
    /\ head(log_buffer_) # 0
    /\ Len(pushed) > N

----------------------------------------------------------------------------
(* CircularLogBufferLogger properties, under Spec *)

NoticeRecord == LOG_LEVEL_CRITICAL_PREFIX \o OverrunNotice

IsSuffix(a, b) == Len(a) <= Len(b) /\ a = LastN(b, Len(a))

LogCalls == {"log", "log_interrupt"}
WriteCalls == {"log", "log_interrupt", "print"}

\* The record of a log call is admitted and fits in the buffer
Admitted(l, en, lvl) == en /\ l <= lvl

\* C4: a record R logged at an admitted level into an empty buffer that can
\* hold it makes size() the length of R, and the flush() that follows hands
\* exactly the bytes of R to the sink, in order, once, and leaves size() == 0,
\* wherever in the storage array R lies.
RoundTrip ==
    /\ (/\ call.op = "log"
        /\ call.pre.size = 0
        /\ Admitted(call.l, call.pre.enabled_, call.pre.level_)
        /\ Len(Record(call.l, call.str)) <= N)
       => /\ ~halted
          /\ logger_size(St) = Len(Record(call.l, call.str))
          /\ Contents(log_buffer_) = Record(call.l, call.str)
    /\ (/\ call.op = "flush"
        /\ call.prev.op = "log"
        /\ call.prev.size = 0
        /\ Admitted(call.prev.l, call.pre.enabled_, call.pre.level_)
        /\ Len(Record(call.prev.l, call.prev.str)) <= N)
       => /\ ~halted
          /\ SinkBytes(events) = Record(call.prev.l, call.prev.str)
          /\ logger_size(St) = 0

\* the flushed record has a four character prefix and wrapped around the end
\* of the storage array
RoundTripWitness ==
    /\ call.op = "flush"
    /\ call.prev.op = "log"
    /\ call.prev.size = 0
    /\ call.prev.l = LOG_LEVEL_DEBUG
    /\ SinkBytes(events) = Record(call.prev.l, call.prev.str)
    /\ call.pre.tail_ + call.pre.size > N
    /\ logger_size(St) = 0

\* C5: log(level, ...) and log_interrupt(level, ...) change nothing when logging
\* is disabled or level is above the current maximum level: buffer, sink and
\* console output, overrun flag and settings are as before the call.
FilteredLogIsNoOp ==
    [][(call'.op \in LogCalls /\ ~Admitted(call'.l, enabled_, level_))
          => /\ UNCHANGED <<log_buffer_, enabled_, auto_flush_, overrun_occurred_,
                            level_, echo_, halted>>
             /\ events' = <<>>]_vars

\* filter at warning, a debug record, a non-empty buffer
FilteredLogWitness ==
    /\ call.op \in LogCalls
    /\ call.l = LOG_LEVEL_DEBUG
    /\ call.pre.level_ = LOG_LEVEL_WARNING
    /\ call.pre.enabled_
    /\ call.pre.size > 0
    /\ logger_size(St) = call.pre.size
    /\ events = <<>>

\* C6: for a byte handed to log_add_char_to_buffer in any reachable state: if
\* the buffer is full, then with auto-flush on flush() is invoked before
\* anything else, with auto-flush off the overrun flag is set and flush() is
\* not invoked; if the buffer is not full, flush() is not invoked and the flag
\* keeps its value; and when the call returns the byte is the newest item.
ByteAccepted ==
    halted \/
    \A c \in {Body(1)[1]} :
        LET pre == St
            post == log_add_char_to_buffer(pre, c, 0)
            wasFull == internal_size(pre) = internal_capacity(pre)
            cb == post.cb
        IN  /\ (wasFull /\ pre.auto_flush_) =>
                   (Len(post.ev) >= 1 /\ post.ev[1].k = "flush")
            /\ (wasFull /\ ~pre.auto_flush_) =>
                   (post.overrun_occurred_ /\ Count(post.ev, "flush") = 0)
            /\ ~wasFull =>
                   /\ Count(post.ev, "flush") = 0
                   /\ post.overrun_occurred_ = pre.overrun_occurred_
            /\ ~post.halted =>
                   /\ post.ev[Len(post.ev)] = Event("put", c)
                   /\ Count(post.ev, "put") = 1
                   /\ size(cb) >= 1
                   /\ cb.buf_[(cb.head_ + cb.max_size_ - 1) % cb.max_size_] = c
                   /\ Contents(cb)[size(cb)] = c

\* a one-byte print on a full buffer with auto-flush on: flush ran, then the byte was stored
ByteAcceptedWitness ==
    /\ call.op = "print"
    /\ Len(call.str) = 1
    /\ call.pre.size = N
    /\ call.pre.auto_flush_
    /\ ~halted
    /\ events[1].k = "flush"
    /\ events[Len(events)] = Event("put", call.str[1])
    /\ Contents(log_buffer_) = call.str

\* What the flush() call appended to the sink after the data that was buffered
Appended == SubSeq(SinkBytes(events), call.pre.size + 1, Len(SinkBytes(events)))

\* C7: a byte written while the buffer is full and auto-flush is off sets
\* has_overrun(); it stays set across later log / print calls until a flush();
\* after that flush has_overrun() is false and one overrun notice (a notice
\* cut short by a small buffer counts as one) was appended to the sink.
OverrunReportedOnce ==
    /\ (/\ call.op \in WriteCalls
        /\ call.op = "log_interrupt" \/ ~call.pre.auto_flush_
        /\ call.pre.size + Count(events, "put") > N)
       => has_overrun(St)
    /\ (/\ call.op \in WriteCalls
        /\ call.pre.overrun_occurred_
        /\ Count(events, "flush") = 0)
       => has_overrun(St)
    /\ (/\ call.op = "flush"
        /\ call.pre.overrun_occurred_
        /\ ~halted)
       => /\ ~has_overrun(St)
          /\ Appended # <<>>
          /\ IsSuffix(Appended, NoticeRecord)

\* C8: a flush() on a non-empty buffer with the overrun flag set writes the
\* buffered data followed by the complete overrun notice to the sink and then
\* clears the flag, whatever the capacity, auto-flush setting and level filter.
OverrunNeverLost ==
    (/\ call.op = "flush"
     /\ call.pre.size > 0
     /\ call.pre.overrun_occurred_)
    => /\ ~halted
       /\ Len(SinkBytes(events)) = call.pre.size + Len(NoticeRecord)
       /\ Appended = NoticeRecord
       /\ ~has_overrun(St)

\* C9: a log_interrupt call invokes neither flush() nor flush_(), writes no
\* byte to the sink and echoes none to the console, whatever the settings and
\* the fill state: all it does is store bytes in the ring buffer.
InterruptPathSafe ==
    call.op = "log_interrupt" =>
        /\ ~halted
        /\ \A i \in 1..Len(events) : events[i].k = "put"
        /\ Admitted(call.l, call.pre.enabled_, call.pre.level_)
              => StoredBytes(events) = Record(call.l, call.str)

\* auto-flush and echo both on, buffer full
InterruptPathWitness ==
    /\ call.op = "log_interrupt"
    /\ call.pre.auto_flush_
    /\ call.pre.echo_
    /\ call.pre.size = N
    /\ StoredBytes(events) = Record(call.l, call.str)
    /\ has_overrun(St)

\* C10: after log_interrupt returns, auto_flush() and echo() are what they
\* were before the call, and so are enabled() and level().
SettingsRestored ==
    call.op = "log_interrupt" =>
        /\ auto_flush(St) = call.pre.auto_flush_
        /\ echo(St) = call.pre.echo_
        /\ enabled(St) = call.pre.enabled_
        /\ level(St) = call.pre.level_

SettingsRestoredWitness ==
    /\ call.op = "log_interrupt"
    /\ call.pre.auto_flush_
    /\ call.pre.echo_
    /\ Count(events, "put") > 0
    /\ auto_flush(St)
    /\ echo(St)

\* C13: flush() terminates: as long as every sink write succeeds, no call to
\* flush(), direct or triggered by auto-flush from a log call, fails to return,
\* for every capacity >= 1, auto-flush setting and value of the overrun flag.
FlushTerminates == halted => card # "ok"

\* C14: clear() discards: after clear() the RAM buffer holds 0 bytes, has_overrun()
\* is false, and the call wrote nothing to the sink or the console (no buffered
\* byte, no overrun notice), whatever the fill state and the flag were before.
ClearDiscards ==
    call.op = "clear" =>
        /\ internal_size(St) = 0
        /\ empty(log_buffer_)
        /\ ~has_overrun(St)
        /\ events = <<>>

\* clear() on a full buffer with the overrun flag set
ClearDiscardsWitness ==
    /\ call.op = "clear"
    /\ call.pre.size = N
    /\ call.pre.overrun_occurred_
    /\ internal_size(St) = 0
    /\ ~has_overrun(St)

\* C16: reset() followed by size() gives 0 and empty() is true, from every
\* reachable state of the buffer: empty, partially full, full, wrapped.
ResetEmpties ==
    /\ size(reset(log_buffer_)) = 0
    /\ empty(reset(log_buffer_))
    /\ call.op = "reset" => (size(log_buffer_) = 0 /\ empty(log_buffer_))

\* reset() ran on a full buffer whose content wrapped around the end of buf_
ResetEmptiesWitness ==
    /\ call.op = "reset"
    /\ call.pre.full_
    /\ call.pre.tail_ > 0
    /\ size(log_buffer_) = 0
    /\ empty(log_buffer_)

\* C17: capacity 0 is a supported "logging disabled" configuration: with N == 0
\* put() changes no state and performs no out-of-range or undefined operation,
\* every call returns, and size() and capacity() both return 0.
ZeroCapacityDisabled ==
    capacity(log_buffer_) = 0 =>
        /\ ~halted
        /\ log_buffer_ = CircularBuffer(0)
        /\ size(log_buffer_) = 0
        /\ \A i \in 1..Len(events) : events[i].k \notin {"out_of_range", "div_by_zero"}

----------------------------------------------------------------------------
(* Sink-backed flush, under SpecSD *)

RECURSIVE Sum(_)
Sum(seq) == IF seq = <<>> THEN 0 ELSE Head(seq) + Sum(Tail(seq))

\* The write requests of a run of events as <<from, count>> pairs, the bytes the
\* file took, and the counts the writes returned
Requests(ev) == [i \in 1..Count(ev, "write") |-> <<Bytes(ev, "write")[i], Bytes(ev, "count")[i]>>]
FileBytes(ev) == Bytes(ev, "byte")
Returned(ev) == Bytes(ev, "ret")

\* C11: sink-write protocol: in every reachable state of the ring buffer, with a
\* sink that takes every byte, writeBufferToSDFile hands the file the byte
\* sequence that draining the buffer with get() would return; when the content
\* wraps it writes buf_[tail, capacity) first and buf_[0, head) second, otherwise
\* the single segment buf_[tail, tail + size); it issues at most two writes and
\* the requested counts sum to size().
SinkWriteProtocol ==
    halted \/
    LET pre == [St EXCEPT !.card = "ok"]
        cb == pre.cb
        post == writeBufferToSDFile(pre)
        req == Requests(post.ev)
    IN  /\ ~post.halted
        /\ FileBytes(post.ev) = Contents(cb)
        /\ Len(req) \in {1, 2}
        /\ Sum(Bytes(post.ev, "count")) = size(cb)
        /\ \A i \in 1..Len(req) : req[i][1] >= 0 /\ req[i][1] + req[i][2] <= capacity(cb)
        /\ IF tail(cb) + size(cb) > capacity(cb)
           THEN req = << <<tail(cb), capacity(cb) - tail(cb)>>, <<0, head(cb)>> >>
           ELSE /\ req[1] = <<tail(cb), size(cb)>>
                /\ \A i \in 2..Len(req) : req[i][2] = 0

\* flush() found a wrapped buffer and wrote it in two non-empty segments
SinkWriteProtocolWitness ==
    /\ call.op = "flush_"
    /\ ~halted
    /\ call.pre.head_ > 0
    /\ call.pre.tail_ + call.pre.size > N
    /\ Requests(events) = << <<call.pre.tail_, N - call.pre.tail_>>, <<0, call.pre.head_>> >>
    /\ Len(FileBytes(events)) = call.pre.size
    /\ Count(events, "close") = 1
    /\ internal_size(St) = 0

\* C12: a sink write failure is fatal: when the counts the sink reports do not
\* sum to size(), the flush enters errorHalt, which never returns: no write is
\* issued again or afterwards, the buffer is not reset, and no call starts
\* after it; a logger that keeps running has had every write answered in full.
SinkFailureFatal ==
    /\ halted \/
       \A c \in Cards :
          LET pre == [St EXCEPT !.card = c]
              post == writeBufferToSDFile(pre)
          IN  /\ Count(post.ev, "write") <= 2
              /\ (c = "dead" \/ Sum(Returned(post.ev)) # size(pre.cb)) =>
                     /\ post.halted
                     /\ post.ev[Len(post.ev)].k = "errorHalt"
                     /\ Count(post.ev, "errorHalt") = 1
                     /\ Count(post.ev, "close") = 0
                     /\ post.cb = pre.cb
    /\ ~halted => Returned(events) = Bytes(events, "count")
    /\ (Count(events, "errorHalt") > 0) =>
           /\ halted
           /\ events[Len(events)].k = "errorHalt"
           /\ Count(events, "errorHalt") = 1

\* a two-segment write that the card answered one byte short ended in errorHalt
SinkFailureFatalWitness ==
    /\ halted
    /\ card = "short"
    /\ events[Len(events)].k = "errorHalt"
    /\ Count(events, "write") = 2
    /\ Sum(Returned(events)) < Sum(Bytes(events, "count"))

----------------------------------------------------------------------------
(* EEPROM window, under SpecEEPROM *)

\* What a reader gets that scans the window from its start and stops at the first 0x00
RECURSIVE ScanFrom(_)
ScanFrom(i) ==
    IF i >= eeprom_log_size_ \/ EEPROM[i] = 0 THEN <<>> ELSE <<EEPROM[i]>> \o ScanFrom(i + 1)

\* C19: EEPROM persisted layout: after any sequence of flush cycles that has not
\* wrapped the window, the window holds all log bytes flushed so far in
\* chronological order followed by a single 0x00, so a reader that scans from
\* the window start and stops at the first 0x00 gets exactly those bytes.
EepromLayout ==
    (fallback_to_eeprom_ /\ ~eeprom_full_ /\ eeprom_write_pos_ > 0) =>
        /\ ScanFrom(0) = persisted
        /\ eeprom_write_pos_ = Len(persisted) + 1
        /\ EEPROM[Len(persisted)] = 0

----------------------------------------------------------------------------
(* Level filters, under SpecModule *)

\* The value the last setter call returned
Returned1 == events[Len(events)].c

\* C15: level clamp: level(l) and level(module_id, l) store l only when l is at
\* most LOG_LEVEL_LIMIT(); above it the stored level is unchanged and that
\* unchanged value is returned; hence the stored global level and every stored
\* module level are at most the ceiling in every reachable state.
LevelClamp ==
    /\ [](/\ level_ <= LOG_LEVEL_LIMIT
          /\ \A m \in DOMAIN module_levels_ : module_levels_[m] <= LOG_LEVEL_LIMIT)
    /\ [][/\ call'.op = "level" =>
               /\ level_' = IF call'.l <= LOG_LEVEL_LIMIT THEN call'.l ELSE level_
               /\ Returned1' = level_'
          /\ call'.op = "level_module" =>
               LET m == call'.str[1]
               IN  /\ module_levels_'[m] =
                        IF call'.l <= LOG_LEVEL_LIMIT THEN call'.l ELSE module_levels_[m]
                   /\ Returned1' = module_levels_'[m]]_vars

\* C18: the global and the per-module filters are separate: level(l) leaves every
\* entry of the module table unchanged, and level(m, l) leaves the global level
\* and the level of every other module unchanged, in both module loggers.
LevelsSeparate ==
    [][/\ call'.op = "level" => module_levels_' = module_levels_
       /\ call'.op = "level_module" =>
            /\ level_' = level_
            /\ DOMAIN module_levels_' = DOMAIN module_levels_
            /\ \A m \in DOMAIN module_levels_ :
                  m # call'.str[1] => module_levels_'[m] = module_levels_[m]]_vars

\* level(1, warning) after level(off): the global level is still off and module 0
\* still has the level it was constructed with
LevelsSeparateWitness ==
    /\ vptr = "TeensySDRotationalModuleLogger"
    /\ call.op = "level_module"
    /\ call.str = <<1>>
    /\ call.l = LOG_LEVEL_WARNING
    /\ call.pre.level_ = LOG_LEVEL_OFF
    /\ level_ = LOG_LEVEL_OFF
    /\ module_levels_ = (0 :> LOG_LEVEL @@ 1 :> LOG_LEVEL_WARNING)

----------------------------------------------------------------------------
(* Console echo, under SpecNotice *)

\* What the last log or print call does from the current object with a console
\* that takes every byte
WithConsole(op, l, str) ==
    IF op = "log"
    THEN log([St EXCEPT !.console = "ok"], l, str, 0)
    ELSE print([St EXCEPT !.console = "ok"], str, 0)

\* C20: echo mirroring: with echo on, the bytes a foreground log() or print() call
\* sends to the console are, byte for byte and in order, the bytes the call
\* pushed into the buffer (level prefix, body, and any record generated during
\* the call); a console that is absent changes nothing of what is stored.
EchoMirrors ==
    [][(call'.op \in {"log", "print"} /\ console' = console) =>
         /\ (echo_ /\ console = "ok" /\ ~halted')
                => ConsoleBytes(events') = StoredBytes(events')
         /\ console = "absent" =>
            LET with == WithConsole(call'.op, call'.l, call'.str)
            IN  /\ log_buffer_' = with.cb
                /\ overrun_occurred_' = with.overrun_occurred_
                /\ StoredBytes(events') = StoredBytes(with.ev)
                /\ SinkBytes(events') = SinkBytes(with.ev)]_vars

\* A log call with echo on that met a full, flagged buffer with auto-flush on:
\* the overrun notice record was generated, stored and echoed before the
\* record of the call
EchoMirrorsWitness ==
    /\ call.op = "log"
    /\ call.pre.echo_
    /\ call.pre.overrun_occurred_
    /\ call.pre.auto_flush_
    /\ console = "ok"
    /\ fg = NoFrame
    /\ ~halted
    /\ ConsoleBytes(events) = NoticeRecord \o Record(call.l, call.str)
    /\ StoredBytes(events) = NoticeRecord \o Record(call.l, call.str)

----------------------------------------------------------------------------
(* Overwrite at logger level, under SpecRecords *)

IsPrefix(a, b) == Len(a) <= Len(b) /\ a = SubSeq(b, 1, Len(a))

\* A log step with auto-flush off whose record does not fit in what is free:
\* the buffer is full afterwards and holds the newest N bytes, in push order
OverwriteKeepsNewest ==
    (/\ call'.op = "log"
     /\ ~auto_flush_
     /\ Admitted(call'.l, enabled_, level_)
     /\ size(log_buffer_) + Len(Record(call'.l, call'.str)) > N)
    => /\ logger_size(St') = N
       /\ logger_capacity(St') = N
       /\ Contents(log_buffer_') =
              LastN(Contents(log_buffer_) \o Record(call'.l, call'.str), N)

\* C21 as stated: with auto-flush off, logging records whose total length exceeds
\* the capacity C leaves size() == capacity() == C, and the sink output of the
\* flush() that follows equals the newest C bytes pushed, in push order.
OverwriteScenario ==
    [][/\ OverwriteKeepsNewest
       /\ (call'.op = "flush" /\ ~auto_flush_ /\ overrun_occurred_)
            => SinkBytes(events') = Contents(log_buffer_)]_vars

\* C21 amended: ... and the sink output of the flush() that follows begins with
\* the newest C bytes pushed, in push order; what follows them is the output of
\* the overrun notice that this flush() generates.
OverwriteScenarioPrefix ==
    [][/\ OverwriteKeepsNewest
       /\ (call'.op = "flush" /\ ~auto_flush_ /\ overrun_occurred_)
            => /\ IsPrefix(Contents(log_buffer_), SinkBytes(events'))
               /\ Len(Contents(log_buffer_)) = N]_vars

\* Two five-byte records into a six-byte buffer, then flush(): the sink output
\* starts with the last byte of the first record and the whole second record
OverwriteScenarioWitness ==
    /\ call.op = "flush"
    /\ call.prev.op = "log"
    /\ call.prev.l = LOG_LEVEL_DEBUG
    /\ call.prev.size = Len(Record(LOG_LEVEL_DEBUG, Body(1)))
    /\ ~call.pre.auto_flush_
    /\ call.pre.overrun_occurred_
    /\ call.pre.size = N
    /\ N = Len(Record(LOG_LEVEL_DEBUG, Body(1))) + 1
    /\ SubSeq(SinkBytes(events), 1, N) = Body(1) \o Record(LOG_LEVEL_DEBUG, Body(1))

----------------------------------------------------------------------------
(* Construction, under SpecRecords *)

\* The template argument: the length of the storage array buf_[TCount]
TBufferSize == Cardinality(DOMAIN log_buffer_.buf_)

\* C23: a freshly constructed CircularLogBufferLogger<N> has size() == 0,
\* capacity() == N, enabled() true, echo() false, level() == LOG_LEVEL_LIMIT(),
\* has_overrun() false, and auto-flush off.
FreshLogger ==
    call.op = "init" =>
        /\ logger_size(St) = 0
        /\ logger_capacity(St) = TBufferSize
        /\ enabled(St) = TRUE
        /\ echo(St) = FALSE
        /\ level(St) = LOG_LEVEL_LIMIT
        /\ level(St) = LOG_LEVEL_DEBUG
        /\ has_overrun(St) = FALSE
        /\ auto_flush(St) = FALSE

\* The logger as constructed, before any call
FreshLoggerWitness ==
    /\ call.op = "init"
    /\ events = <<>>
    /\ TBufferSize = Len(Record(LOG_LEVEL_DEBUG, Body(1)))
    /\ logger_capacity(St) = TBufferSize
    /\ logger_size(St) = 0
    /\ empty(log_buffer_)

----------------------------------------------------------------------------
(* The overrun flag of a TeensyRobustModuleLogger, under SpecRobust *)

\* C22: has_overrun() is sound: a call in which the flag rises stored more
\* bytes than the RAM ring buffer had room for, so that at least one byte that
\* no flush had written was overwritten (put() on a full buffer).
HasOverrunSound ==
    [][(~has_overrun(St) /\ has_overrun(St'))
          => size(log_buffer_) + Count(events', "put") > capacity(log_buffer_)]_vars

----------------------------------------------------------------------------
(* Sink-backed flush of TeensySDRotationalModuleLogger, under SpecSDModule *)

\* C24: TeensySDRotationalModuleLogger follows the same chronological protocol:
\* in every reachable state of the ring buffer, with a sink that takes every
\* byte, its writeBufferToSDFile requests exactly size() bytes from within the
\* storage array, oldest to newest (buf_[tail, capacity) then buf_[0, head) when
\* the content wraps, otherwise buf_[tail, tail + size)), the file receives the
\* buffer content in the order it was stored, and the call does not end in
\* errorHalt.
ModuleSinkWriteProtocol ==
    halted \/
    \A beyond \in Beyond :
       LET pre == [St EXCEPT !.card = "ok"]
           cb == pre.cb
           post == TeensySDRotationalModuleLogger_writeBufferToSDFile(pre, beyond)
           req == Requests(post.ev)
       IN  /\ ~post.halted
           /\ FileBytes(post.ev) = Contents(cb)
           /\ Sum(Bytes(post.ev, "count")) = size(cb)
           /\ \A i \in 1..Len(req) : req[i][1] >= 0 /\ req[i][1] + req[i][2] <= capacity(cb)
           /\ IF tail(cb) + size(cb) > capacity(cb)
              THEN SelectSeq(req, LAMBDA r : r[2] > 0)
                      = SelectSeq(<< <<tail(cb), capacity(cb) - tail(cb)>>, <<0, head(cb)>> >>,
                                  LAMBDA r : r[2] > 0)
              ELSE SelectSeq(req, LAMBDA r : r[2] > 0)
                      = SelectSeq(<< <<tail(cb), size(cb)>> >>, LAMBDA r : r[2] > 0)

----------------------------------------------------------------------------
(* The reset at the end of a sink-backed flush, under SpecSD *)

\* C25: in every sink-backed flush the ring buffer is reset to empty only after
\* the sum of the written byte counts was found equal to size(): a flush whose
\* counts add up returns with the buffer reset, after its last write returned;
\* a flush whose counts do not add up (or whose file does not open) leaves
\* head_, tail_ and full_ as they were, and with them every buffered byte.
ResetAfterVerified ==
    halted \/
    \A c \in Cards, beyond \in Beyond :
       LET pre == [St EXCEPT !.card = c]
           Verified(post) == c # "dead" /\ Sum(Returned(post.ev)) = size(pre.cb)
           Holds(post) ==
               IF Verified(post)
               THEN /\ ~post.halted
                    /\ post.cb = reset(pre.cb)
                    /\ empty(post.cb)
                    /\ post.ev[Len(post.ev)].k = "close"
                    /\ post.ev[Len(post.ev) - 1].k = "ret"
               ELSE /\ post.halted
                    /\ post.cb.head_ = pre.cb.head_
                    /\ post.cb.tail_ = pre.cb.tail_
                    /\ post.cb.full_ = pre.cb.full_
                    /\ Contents(post.cb) = Contents(pre.cb)
       IN  /\ Holds(writeBufferToSDFile(pre))
           /\ Holds(TeensySDRotationalModuleLogger_writeBufferToSDFile(pre, beyond))

\* a flush_ of a full buffer whose writes were answered in full returned with
\* the buffer empty
ResetAfterVerifiedWitness ==
    /\ call.op = "flush_"
    /\ ~halted
    /\ call.pre.full_
    /\ Sum(Returned(events)) = N
    /\ events[Len(events)].k = "close"
    /\ empty(log_buffer_)
    /\ head(log_buffer_) = call.pre.tail_

----------------------------------------------------------------------------
(* Interrupt handlers that log during a foreground call, under SpecISR *)

\* C27: an interrupt write during a foreground flush loses no data: whatever
\* log_interrupt stored between two statements of the flush, the bytes that
\* log_buffer_.reset() discards have all been written to the sink by this
\* flush, or has_overrun() is set.
InterruptWriteKept ==
    [][(fg.pc = "reset" /\ fg'.pc = "close")
          => \/ has_overrun(St)
             \/ Contents(log_buffer_) = FileBytes(events)]_vars

\* C28: no spurious fatal error under interrupts: while every write of the
\* sink returns the count it was asked for, a foreground flush does not end in
\* errorHalt, whatever log_interrupt stored during it.
NoSpuriousHalt ==
    (Returned(events) = Bytes(events, "count")) => Count(events, "errorHalt") = 0

\* The newest n items of seq
Newest(seq, n) == IF Len(seq) <= n THEN seq ELSE LastN(seq, n)

\* C29: a foreground put() preempted between its statements by log_interrupt
\* leaves the ring buffer sound: when it returns head_ and tail_ are in range,
\* and the content is the newest N of the bytes accepted (those buffered when
\* put() was entered, then the item and the bytes of the handlers in the order
\* they were accepted, the item before, between or after them), with full_
\* exactly when N of them are held.
PreemptedPutSound ==
    [][(fg.pc = "set_full" /\ fg'.pc = "idle")
          => /\ log_buffer_'.head_ \in 0..(N - 1)
             /\ log_buffer_'.tail_ \in 0..(N - 1)
             /\ \E k \in 0..Len(StoredBytes(events)) :
                   LET isr == StoredBytes(events)
                       accepted == Contents(fg.base) \o SubSeq(isr, 1, k) \o <<fg.item>>
                                       \o SubSeq(isr, k + 1, Len(isr))
                   IN  /\ Contents(log_buffer_') = Newest(accepted, N)
                       /\ log_buffer_'.full_ <=> (Len(accepted) >= N)]_vars

\* C30: an overrun recorded by the interrupt path is never cleared unreported:
\* when flush() executes overrun_occurred_ = false, no log_interrupt has
\* raised the flag during this flush() without an overrun notice logged and
\* flushed afterwards.
InterruptOverrunReported ==
    [][(fg.pc = "clear" /\ fg'.pc = "idle") => ~fg.isr_overrun]_vars

----------------------------------------------------------------------------
(* Auto-flush, under SpecRobust *)

\* The log bytes a run of events handed to the sink, in order: what flush_
\* passed to _putchar, to file_.write or to EEPROM.write (the 0x00 end mark
\* that the EEPROM flush_ writes after the data is not a log byte)
SinkOutput(ev) ==
    LET sel == SelectSeq(ev, LAMBDA e : e.k \in {"putchar", "byte", "EEPROM.write"} /\ e.c # 0)
    IN  [i \in 1..Len(sel) |-> sel[i].c]

\* C26: no loss under auto-flush: a foreground log() or print() that starts
\* with auto-flush enabled and has_overrun() false, on a sink that takes every
\* byte, returns with has_overrun() false, and what it handed to the sink
\* followed by the buffer content it leaves is the buffer content it found
\* followed by the bytes it accepted, in the order they were accepted: no byte
\* lost, duplicated or reordered.
NoLossUnderAutoFlush ==
    [][(/\ call'.op \in {"log", "print"}
        /\ auto_flush_ /\ ~has_overrun(St)
        /\ ~halted')
          => /\ ~has_overrun(St')
             /\ SinkOutput(events') \o Contents(log_buffer_')
                  = Contents(log_buffer_) \o StoredBytes(events')]_vars

----------------------------------------------------------------------------
(* flush() on an empty buffer, under Spec *)

\* C31: flush() on an empty internal buffer is a no-op: the call does not reach
\* flush_ (no sink open, write or close), stores and echoes nothing (no overrun
\* notice), returns, and leaves head, tail, full, the overrun flag and the
\* settings as they were.
EmptyFlushIsNoOp ==
    (call.op = "flush" /\ call.pre.size = 0) =>
        /\ events = <<Event("flush", 0)>>
        /\ ~halted
        /\ Pre = call.pre

\* flush() on a buffer that holds nothing, after bytes went through it, with
\* echo on and the filter open
EmptyFlushIsNoOpWitness ==
    /\ call.op = "flush"
    /\ call.pre.size = 0
    /\ call.pre.head_ > 0
    /\ call.pre.echo_ /\ call.pre.enabled_ /\ call.pre.level_ = LOG_LEVEL_LIMIT
    /\ events = <<Event("flush", 0)>>
    /\ Pre = call.pre

----------------------------------------------------------------------------
(* reset() and get(), under SpecCB *)

\* C32: CircularBuffer::reset() sets tail to the current head and clears full:
\* after reset() the value of head() is the same as before the call and
\* tail() == head(), so the next put() writes at the slot where the pre-reset
\* head pointed.
ResetKeepsHead ==
    call.op = "reset" =>
        /\ head(log_buffer_) = call.pre.head_
        /\ tail(log_buffer_) = head(log_buffer_)
        /\ ~full(log_buffer_)
        /\ \A item \in Items :
              storage(put(log_buffer_, item))
                  = [storage(log_buffer_) EXCEPT ![call.pre.head_] = item]

\* C32 as the code has it: reset() sets head to the current tail and clears
\* full: after reset() the value of tail() is the same as before the call and
\* head() == tail(), so the next put() writes at the slot where the pre-reset
\* tail pointed.
ResetKeepsTail ==
    call.op = "reset" =>
        /\ tail(log_buffer_) = call.pre.tail_
        /\ head(log_buffer_) = tail(log_buffer_)
        /\ ~full(log_buffer_)
        /\ \A item \in Items :
              storage(put(log_buffer_, item))
                  = [storage(log_buffer_) EXCEPT ![call.pre.tail_] = item]

\* reset() ran on a buffer whose head and tail differed
ResetKeepsTailWitness ==
    /\ call.op = "reset"
    /\ call.pre.head_ # call.pre.tail_
    /\ call.pre.size > 0
    /\ tail(log_buffer_) = call.pre.tail_
    /\ head(log_buffer_) = call.pre.tail_

\* C33: CircularBuffer::get() on an empty buffer returns the default (zero)
\* value and leaves head, tail and full unchanged; on a non-empty buffer it
\* returns the item at tail, advances tail by one modulo N, clears full and
\* decreases size() by exactly one.
GetTakesOldest ==
    [][call'.op = "get" =>
          IF empty(log_buffer_)
          THEN /\ events' = <<Event("get", 0)>>
               /\ log_buffer_' = log_buffer_
          ELSE /\ events' = <<Event("get", storage(log_buffer_)[tail(log_buffer_)])>>
               /\ tail(log_buffer_') = (tail(log_buffer_) + 1) % N
               /\ head(log_buffer_') = head(log_buffer_)
               /\ ~full(log_buffer_')
               /\ size(log_buffer_') = size(log_buffer_) - 1]_vars

\* get() ran on an empty buffer whose slot at tail still holds an item that is
\* not the default value
GetTakesOldestWitness ==
    /\ call.op = "get"
    /\ call.pre.size = 0
    /\ storage(log_buffer_)[tail(log_buffer_)] > 0
    /\ events = <<Event("get", 0)>>
    /\ head(log_buffer_) = call.pre.head_
    /\ tail(log_buffer_) = call.pre.tail_
    /\ ~full(log_buffer_)

----------------------------------------------------------------------------
(* The EEPROM cursor, under SpecEEPROM *)

\* The window after the bytes were written one by one from the cell at pos on,
\* going back to the first cell after the last
RECURSIVE WindowAfter(_, _, _)
WindowAfter(window, pos, bytes) ==
    IF bytes = <<>> THEN window
    ELSE WindowAfter([window EXCEPT ![pos] = Head(bytes)],
                     (pos + 1) % eeprom_log_size_, Tail(bytes))

\* C34: EEPROM cursor invariant (TeensyRobustModuleLogger, window size >= 1):
\* after any sequence of flushes, 0 <= cursor < window size; every EEPROM byte
\* written by a flush lies inside the window, at the cursor's cell; the cursor
\* wraps to 0 exactly at the window boundary; the window-full flag becomes true
\* at the first wrap and is never cleared afterwards; and size() returns the
\* cursor before the first wrap and the window size after it.
EepromCursor ==
    /\ [](/\ eeprom_write_pos_ \in 0..(eeprom_log_size_ - 1)
          /\ DOMAIN EEPROM = 0..(eeprom_log_size_ - 1))
    /\ [][eeprom_full_ => eeprom_full_']_vars
    /\ [][call'.op = "flush_" =>
            LET bytes == Bytes(events', "EEPROM.write")
                wraps == eeprom_write_pos_ + Len(bytes) >= eeprom_log_size_
            IN  /\ EEPROM' = WindowAfter(EEPROM, eeprom_write_pos_, bytes)
                /\ eeprom_write_pos_' = (eeprom_write_pos_ + Len(bytes)) % eeprom_log_size_
                /\ eeprom_full_' = (eeprom_full_ \/ wraps)
                /\ TeensyRobustModuleLogger_size(St', 0)
                     = IF eeprom_full_ \/ wraps
                       THEN eeprom_log_size_
                       ELSE eeprom_write_pos_ + Len(bytes)]_vars

\* a flush cycle that started before the end of the window and went past it
EepromCursorWitness ==
    /\ call.op = "flush_"
    /\ fallback_to_eeprom_
    /\ Len(Bytes(events, "EEPROM.write")) > eeprom_write_pos_
    /\ eeprom_write_pos_ > 0
    /\ eeprom_full_
    /\ TeensyRobustModuleLogger_size(St, 0) = eeprom_log_size_

----------------------------------------------------------------------------
(* Completeness of the overrun flag, under SpecRobust *)

\* C35: overrun tracking is complete in every strategy, including
\* TeensyRobustModuleLogger in EEPROM mode with any window size: a call that
\* stored more bytes than the RAM ring buffer had room for, and in which no
\* flush ran, overwrote a byte that no flush had written, and returns with
\* has_overrun() true.
OverrunComplete ==
    [][(/\ call'.op \in {"log", "print"}
        /\ Count(events', "flush") = 0
        /\ size(log_buffer_) + Count(events', "put") > capacity(log_buffer_))
          => has_overrun(St')]_vars

----------------------------------------------------------------------------
(* Flush cycles and the EEPROM window, under SpecRobust *)

\* The largest number of EEPROM.write calls that one flush_() of a run of
\* events made; run counts the writes of the flush_() being followed
RECURSIVE LongestCycle(_, _, _)
LongestCycle(ev, run, best) ==
    IF ev = <<>> THEN IF run > best THEN run ELSE best
    ELSE IF Head(ev).k = "flush_"
         THEN LongestCycle(Tail(ev), 0, IF run > best THEN run ELSE best)
         ELSE IF Head(ev).k = "EEPROM.write"
              THEN LongestCycle(Tail(ev), run + 1, best)
              ELSE LongestCycle(Tail(ev), run, best)

\* C36: in EEPROM mode with auto-flush enabled, auto-flush fires before the
\* buffered data would over-fill the EEPROM window: a single flush cycle (the
\* buffered data bytes plus the terminating 0x00) never writes more bytes than
\* the window size, so neither the 0x00 nor later bytes of the cycle overwrite
\* bytes written earlier in the same cycle. Stated for calls that start with
\* auto-flush on, no overrun pending and no more bytes buffered than the
\* window has cells.
CycleFitsWindow ==
    [][(/\ call'.op \in {"log", "print", "flush"}
        /\ fallback_to_eeprom_ /\ auto_flush_ /\ ~has_overrun(St)
        /\ size(log_buffer_) <= eeprom_log_size_)
          => LongestCycle(events', 0, 0) <= eeprom_log_size_]_vars

----------------------------------------------------------------------------
(* The module pre-filter, under SpecModuleLog *)

ModuleLogCalls == {"log_module", "log_interrupt_module"}

\* C37: module pre-filter: a module-tagged call at level L for module m stores
\* bytes in the buffer iff L <= module_levels[m] and logging is enabled and
\* L <= the global level; when any of the three fails, the buffer, the sink,
\* the overrun flag and the settings are unchanged.
ModulePreFilter ==
    [][call'.op \in ModuleLogCalls =>
          LET passes == /\ call'.l <= module_levels_[call'.module_id]
                        /\ enabled_
                        /\ call'.l <= level_
          IN  /\ passes <=> Count(events', "put") > 0
              /\ passes => Bytes(events', "put")[1] = LOG_LEVEL_TO_SHORT_C_STRING(call'.l)[1]
              /\ ~passes =>
                    /\ UNCHANGED <<log_buffer_, overrun_occurred_, enabled_, auto_flush_,
                                   level_, echo_, module_levels_, halted>>
                    /\ events' = <<>>]_vars

\* a warning for module 1 dropped by the module table alone (the global level
\* admits it), after one for module 0 that was stored
ModulePreFilterWitness ==
    /\ call.op \in ModuleLogCalls
    /\ call.module_id = 1
    /\ call.l = LOG_LEVEL_WARNING
    /\ module_levels_[1] = LOG_LEVEL_OFF
    /\ module_levels_[0] >= LOG_LEVEL_WARNING
    /\ level_ >= LOG_LEVEL_WARNING /\ enabled_
    /\ size(log_buffer_) > 0
    /\ events = <<>>

----------------------------------------------------------------------------
(* The module table as constructed, under SpecModule *)

\* C38: initial module levels: immediately after construction of a module
\* logger with TModuleCount > 1, the level of every module id in
\* 0..TModuleCount-1 equals the compile-time LOG_LEVEL (the same default as the
\* global level), so that before any setter call a module-tagged record at any
\* level <= LOG_LEVEL passes the module test for every module.
InitialModuleLevels ==
    (call.op = "init" /\ vptr \in ModuleLoggers) =>
        \A m \in DOMAIN module_levels_ :
            /\ level_module(St, m) = LOG_LEVEL
            /\ \A l \in Levels : l <= LOG_LEVEL => level_module(St, m) >= l


\* C39: on both module loggers, calling level(l) with a log_level_e argument
\* l <= the ceiling sets the global maximum level to l and returns it; it is
\* never resolved as the per-module getter level(module_id) with l used as a
\* module index.
LevelExpressionSetsGlobal ==
    [][(call'.op = "level(log_level_e)" /\ call'.l <= LOG_LEVEL_LIMIT)
          => /\ level_' = call'.l
             /\ Returned1' = call'.l]_vars
====
